---- MODULE Spec2Model ----
(***************************************************************************)
(* Stage 3 multimodal fusion, alert lifecycle and monitoring batch of the  *)
(* Hepatica backend (backend/app/services/stage3.py,                       *)
(* backend/app/services/stage3_monitoring.py, backend/app/api/v1/stage3.py *)
(* and backend/app/api/v1/reports.py).                                     *)
(*                                                                         *)
(* Numbers.  Scores, probabilities and thresholds are Python floats that   *)
(* the code rounds to 6 decimals; they are kept here as integers in        *)
(* millionths (Micro).  FIB-4 and APRI are kept in hundredths, BMI in      *)
(* tenths, stiffness in thousandths of a kPa.  AST, ALT, platelets and age *)
(* are positive integers, so max(alt, 1e-4) is alt.  Database rows live in *)
(* sequences in insertion order: a row's id is its index and               *)
(* "ORDER BY created_at DESC" is the highest index.  An absent id is NoId  *)
(* (0), an absent row is None.                                             *)
(***************************************************************************)
EXTENDS Integers, Sequences, FiniteSets, TLC

\* ---------------------------------------------------------------- bounds
NumPatients == 2
MaxMeasurements == 1
MaxRuns == 2
MaxStatusUpdates == 2

\* ------------------------------------------------------------- constants
Micro == 1000000
NoId == 0

Patients == 1..NumPatients
Users == {1}
AlertTypes == {"ADVANCED_FIBROSIS_RISK", "DECOMPENSATION_RISK"}
StatusValues == {"open", "ack", "closed"}

\* Settings the process can be started with: the precision target in
\* hundredths, the proxy fallback switch and the Stage 3 feature flag.
Settings(ppv_target, proxy_enabled, enabled) ==
  [stage3_alert_ppv_target |-> ppv_target,
   stage3_stiffness_proxy_enabled |-> proxy_enabled,
   stage3_enabled |-> enabled]

Configs ==
  { Settings(80, TRUE, TRUE), Settings(85, TRUE, TRUE),
    Settings(90, TRUE, TRUE), Settings(80, FALSE, TRUE),
    Settings(85, TRUE, FALSE) }

\* A ClinicalAssessment row as Stage 1 stored it (age 62, AST 160, ALT 80,
\* platelets 105, AST-ULN 40, BMI 33, diabetic).  fib4 and apri are in
\* ten-thousandths, as run_stage1 rounds them: FIB-4 10.5627, APRI 3.8095.
ClinicalRow(patient_id) ==
  [patient_id |-> patient_id, performed_by |-> 1, age |-> 62, bmi |-> 330,
   fib4 |-> 105627, apri |-> 38095, ast |-> 160, alt |-> 80,
   platelets |-> 105, ast_uln |-> 40, type2dm |-> TRUE, risk_tier |-> "HIGH",
   probability |-> 8700, model_version |-> << "clinical-rule-engine", "v1" >>]

\* The ClinicalAssessment row of a healthy patient (age 35, AST 25, ALT 36,
\* platelets 250, AST-ULN 40, BMI 22, not diabetic): FIB-4 0.5833, APRI 0.25,
\* tier LOW with probability 0.20.
HealthyClinicalRow(patient_id) ==
  [patient_id |-> patient_id, performed_by |-> 1, age |-> 35, bmi |-> 220,
   fib4 |-> 5833, apri |-> 2500, ast |-> 25, alt |-> 36,
   platelets |-> 250, ast_uln |-> 40, type2dm |-> FALSE, risk_tier |-> "LOW",
   probability |-> 2000, model_version |-> << "clinical-rule-engine", "v1" >>]

\* The ClinicalAssessment row of a patient with decompensated cirrhosis (age
\* 80, AST 400, ALT 100, platelets 50, AST-ULN 40, BMI 40, diabetic): FIB-4
\* 64.0, APRI 20.0, tier HIGH with probability 0.87.
SickestClinicalRow(patient_id) ==
  [patient_id |-> patient_id, performed_by |-> 1, age |-> 80, bmi |-> 400,
   fib4 |-> 640000, apri |-> 200000, ast |-> 400, alt |-> 100,
   platelets |-> 50, ast_uln |-> 40, type2dm |-> TRUE, risk_tier |-> "HIGH",
   probability |-> 8700, model_version |-> << "clinical-rule-engine", "v1" >>]

\* A FibrosisPrediction row as Stage 2 stored it.
FibrosisRow(patient_id, top1_stage, top1_probability, is_valid) ==
  [patient_id |-> patient_id, top1_stage |-> top1_stage,
   top1_probability |-> top1_probability,
   quality_metrics |->
     [is_valid |-> is_valid,
      reason_codes |-> IF is_valid THEN << >> ELSE << "TOO_DARK" >>,
      gate |-> "warn"]]

\* Stage 1 / Stage 2 results the database holds before Stage 3 is used:
\* a patient with both, patients with one each, and nobody with anything.
Seeds ==
  { [clinical |-> << ClinicalRow(1) >>,
     fibrosis |-> << FibrosisRow(1, "F4", 900000, TRUE) >>],
    [clinical |-> << ClinicalRow(1) >>,
     fibrosis |-> << FibrosisRow(2, "F1", 600000, FALSE) >>],
    [clinical |-> << >>, fibrosis |-> << >>] }

\* ClinicalAssessment rows one behaviour stores through the Stage 1 endpoint.
MaxClinical == 1

\* FibrosisPrediction rows one behaviour stores through the Stage 2 endpoint.
MaxPredictions == 2

\* Stage 3 runs of one behaviour that follows two patients over their
\* visits: one more than the trend keeps.
MaxVisits == 13

\* Stiffness values a clinician can record, in thousandths of a kPa.
MeasuredKpa == {24500}

\* What the learned fusion model can answer for one frame: a probability,
\* or an exception at prediction time.
ModelOutputs == {0, 850000, 1000000}
NotPredicted == [raised |-> TRUE, p |-> 0]
PredictOutcomes ==
  {[raised |-> FALSE, p |-> v] : v \in ModelOutputs} \cup {NotPredicted}

\* Python's None where a row or a result record is expected.
None == [is_none |-> TRUE]

\* The settings and artifact files the Stage 1 and Stage 2 handlers read:
\* Settings.is_local_dev, the stage*_require_model_non_dev switches, the
\* resolved Stage 2 quality gate, and what is on disk for each model
\* ("missing", "corrupt" or "ok").
Environment(is_local_dev, stage1_ml_enabled, require_model_non_dev, gate, stage1_artifacts, stage2_artifact, stage2_temperature) ==
  [is_local_dev |-> is_local_dev,
   stage1_ml_enabled |-> stage1_ml_enabled,
   stage1_require_model_non_dev |-> require_model_non_dev,
   stage2_require_model_non_dev |-> require_model_non_dev,
   resolved_stage2_quality_gate |-> gate,
   stage1_artifacts |-> stage1_artifacts,
   stage2_artifact |-> stage2_artifact,
   stage2_temperature |-> stage2_temperature]

\* Settings' defaults on a machine with no trained artifact.
DefaultEnvironment ==
  Environment(TRUE, TRUE, TRUE, "warn", "missing", "missing", "missing")

ArtifactStates == {"missing", "corrupt", "ok"}

\* No Stage 1 / Stage 2 / registry call has answered yet.
NoResponse == [call |-> "none"]

\* --------------------------------------------------------- model registry
\* A ModelRegistry row; created_at is the row's position in the table.
RegistryRow(name, version, is_active) ==
  [name |-> name, version |-> version, is_active |-> is_active]

\* The rows init_db seeds, all active.
DefaultModels ==
  << RegistryRow("clinical-stage1-gbdt", "v1", TRUE),
     RegistryRow("clinical-rule-engine", "v1", TRUE),
     RegistryRow("fibrosis-efficientnet-b3", "v1", TRUE),
     RegistryRow("multimodal-stage3-risk", "v1", TRUE) >>

Stage1RegistryModelName == "clinical-stage1-gbdt"
Stage2RegistryModelName == "fibrosis-efficientnet-b3"
Stage3RegistryModelName == "multimodal-stage3-risk"

\* get_active_model: the newest active row of that name, or None.
GetActiveModel(table, model_name) ==
  LET ids == {i \in DOMAIN table :
                table[i].name = model_name /\ table[i].is_active}
  IN IF ids = {} THEN None
     ELSE table[CHOOSE i \in ids : \A j \in ids : j <= i]

\* format_model_version: the string "name:version", kept as its two parts.
\* A version string is the sequence of its parts; a suffix is one more part.
FormatModelVersion(model, default_name, default_version) ==
  IF model = None THEN << default_name, default_version >>
  ELSE << model.name, model.version >>

\* ----------------------------------------------------------------- Stage 1
\* FIB-4, APRI and probabilities are in ten-thousandths, the four decimals
\* run_stage1 and predict_stage1_ml round to; BMI is in tenths.

\* math.sqrt on the ALT values of the payloads below, which are squares.
Sqrt(n) == CHOOSE r \in 1..45 : r * r = n

\* round(numerator / denominator, 4) in ten-thousandths.
Round4(numerator, denominator) ==
  (2 * 10000 * numerator + denominator) \div (2 * denominator)

\* run_stage1's round(compute_fib4(...), 4); the payload schema keeps ALT
\* and platelets positive, so the ValueError branch is not taken.
ComputeFib4(age, ast, platelets, alt) ==
  Round4(age * ast, platelets * Sqrt(alt))

\* run_stage1's round(compute_apri(...), 4).
ComputeApri(ast, ast_uln, platelets) ==
  Round4(ast * 100, ast_uln * platelets)

\* Faulty variant: FIB-4 of exactly 2.67 already counts as HIGH.
MapRiskTierHighFrom267(fib4, apri) ==
  IF fib4 >= 26700 \/ apri >= 10000 THEN "HIGH"
  ELSE IF (13000 <= fib4 /\ fib4 <= 26700) \/ (5000 <= apri /\ apri < 10000)
  THEN "MODERATE"
  ELSE "LOW"

\* map_risk_tier.
MapRiskTier(fib4, apri) ==
  IF fib4 > 26700 \/ apri >= 10000 THEN "HIGH"
  ELSE IF (13000 <= fib4 /\ fib4 <= 26700) \/ (5000 <= apri /\ apri < 10000)
  THEN "MODERATE"
  ELSE "LOW"

\* Faulty variant: the metabolic bonus needs a BMI above 30.
MapProbabilityBmiAbove30(risk_tier, bmi, type2dm) ==
  LET base == CASE risk_tier = "LOW" -> 2000
                [] risk_tier = "MODERATE" -> 5500
                [] risk_tier = "HIGH" -> 8200
      bonus == IF bmi > 300 /\ type2dm THEN 500 ELSE 0
  IN IF base + bonus <= 9500 THEN base + bonus ELSE 9500

\* map_probability followed by run_stage1's round(..., 4).
MapProbability(risk_tier, bmi, type2dm) ==
  LET base == CASE risk_tier = "LOW" -> 2000
                [] risk_tier = "MODERATE" -> 5500
                [] risk_tier = "HIGH" -> 8200
      bonus == IF bmi >= 300 /\ type2dm THEN 500 ELSE 0
  IN IF base + bonus <= 9500 THEN base + bonus ELSE 9500

\* run_stage1: the Stage1Result of the rule engine.
RunStage1(age, ast, alt, platelets, ast_uln, bmi, type2dm) ==
  LET fib4 == ComputeFib4(age, ast, platelets, alt)
      apri == ComputeApri(ast, ast_uln, platelets)
      risk_tier == MapRiskTier(fib4, apri)
  IN [fib4 |-> fib4,
      apri |-> apri,
      risk_tier |-> risk_tier,
      probability |-> MapProbability(risk_tier, bmi, type2dm),
      model_version |-> << "clinical-rule-engine", "v1" >>]

\* Request bodies of POST /assessments/clinical that pass the schema:
\* FIB-4 1.3 / APRI 0.625, FIB-4 0.48 / APRI 0.2, FIB-4 6.0 / APRI 2.0.
ClinicalPayloads ==
  { [age |-> 52, ast |-> 25, alt |-> 100, platelets |-> 100, ast_uln |-> 40,
     bmi |-> 310, type2dm |-> TRUE],
    [age |-> 30, ast |-> 20, alt |-> 25, platelets |-> 250, ast_uln |-> 40,
     bmi |-> 250, type2dm |-> FALSE],
    [age |-> 60, ast |-> 80, alt |-> 64, platelets |-> 100, ast_uln |-> 40,
     bmi |-> 310, type2dm |-> TRUE] }

\* What the trained Stage 1 models answer once they are loaded: a label and
\* a regressed probability, or an exception of their own.
Stage1ModelAnswers ==
  { [kind |-> "prediction", label |-> "LOW", p |-> 4321],
    [kind |-> "prediction", label |-> "HIGH", p |-> 9900],
    [kind |-> "prediction", label |-> "UNKNOWN", p |-> 4321],
    [kind |-> "raised", label |-> "", p |-> 0] }

\* The signal that the Stage 1 model cannot be used.
Stage1ModelUnavailableError == [unavailable |-> TRUE]

\* predict_stage1_ml: Stage1ModelUnavailableError when the artifacts are
\* missing or do not load, or the classifier's label is not a RiskTier;
\* "raised" stands for any other exception of the models.
PredictStage1Ml(stage1_artifacts, answer, model_version_override) ==
  IF stage1_artifacts # "ok" THEN Stage1ModelUnavailableError
  ELSE IF answer.kind = "raised" THEN [raised |-> TRUE]
  ELSE IF answer.label \notin {"LOW", "MODERATE", "HIGH"}
  THEN Stage1ModelUnavailableError
  ELSE [risk_tier |-> answer.label,
        probability |-> IF answer.p < 0 THEN 0
                        ELSE IF answer.p > 9500 THEN 9500 ELSE answer.p,
        model_version |->
          IF model_version_override # None THEN model_version_override
          ELSE << "clinical-stage1-gbdt", "v1" >>]

\* ----------------------------------------------------------------- Stage 2
\* Probabilities are in millionths, the six decimals predict rounds to.  A
\* softmax vector is the sequence of the five stages' probabilities.
STAGES == << "F0", "F1", "F2", "F3", "F4" >>

\* What is known of an uploaded image: whether its bytes can be fetched, the
\* antivirus and DICOM verdicts, the reason codes evaluate_quality finds,
\* and the softmax vectors the trained network and the heuristic scorer
\* give for it.
Image(available, av_ok, format_ok, reason_codes, ml_probs, heuristic_probs) ==
  [available |-> available,
   av_ok |-> av_ok,
   format_ok |-> format_ok,
   reason_codes |-> reason_codes,
   ml_probs |-> ml_probs,
   heuristic_probs |-> heuristic_probs]

\* Images on and next to the 0.60 and 0.65 thresholds, with a tie for the
\* first place, failing the quality check, infected, malformed, and lost
\* from the object store.
Images ==
  << Image(TRUE, TRUE, TRUE, << >>,
           << 50000, 50000, 100000, 150000, 650000 >>,
           << 100000, 700000, 100000, 50000, 50000 >>),
     Image(TRUE, TRUE, TRUE, << "TOO_DARK" >>,
           << 100000, 100000, 599999, 100001, 100000 >>,
           << 100000, 100000, 100000, 649999, 50001 >>),
     Image(TRUE, TRUE, TRUE, << >>,
           << 100000, 100000, 100000, 600000, 100000 >>,
           << 400000, 400000, 100000, 50000, 50000 >>),
     Image(TRUE, FALSE, TRUE, << >>,
           << 200000, 200000, 200000, 200000, 200000 >>,
           << 200000, 200000, 200000, 200000, 200000 >>),
     Image(TRUE, TRUE, FALSE, << >>,
           << 200000, 200000, 200000, 200000, 200000 >>,
           << 200000, 200000, 200000, 200000, 200000 >>),
     Image(FALSE, TRUE, TRUE, << >>,
           << 200000, 200000, 200000, 200000, 200000 >>,
           << 200000, 200000, 200000, 200000, 200000 >>) >>

\* QualityResult of evaluate_quality: valid when no reason code was found.
EvaluateQuality(image) ==
  [is_valid |-> image.reason_codes = << >>,
   reason_codes |-> image.reason_codes]

\* sorted(probs_map.items(), key=probability, reverse=True): the stable
\* sort keeps the earlier stage first among equal probabilities.
RECURSIVE OrderedStages(_, _)
OrderedStages(probs, remaining) ==
  IF remaining = {} THEN << >>
  ELSE LET first ==
             CHOOSE i \in remaining :
               \A j \in remaining :
                 probs[i] > probs[j] \/ (probs[i] = probs[j] /\ i <= j)
       IN << [stage |-> STAGES[first], probability |-> probs[first]] >>
          \o OrderedStages(probs, remaining \ {first})

\* FibrosisModelRuntime._strict_mode.
Stage2StrictMode(settings) ==
  ~settings.is_local_dev /\ settings.stage2_require_model_non_dev

\* validate_stage2_artifacts: TRUE when the contract check raises.
Stage2ContractBroken(settings) ==
  /\ Stage2StrictMode(settings)
  /\ \/ settings.stage2_artifact = "missing"
     \/ settings.stage2_temperature # "ok"

\* Faulty variant: a model that cannot be loaded always falls back.
LazyLoadModelFallsBack(settings) ==
  IF settings.stage2_artifact = "ok" THEN "model" ELSE "false"

\* FibrosisModelRuntime._lazy_load_model: "model" when the network loaded,
\* "false" for the heuristic fallback, "raised" for RuntimeError.
LazyLoadModel(settings) ==
  IF settings.stage2_artifact = "ok" THEN "model"
  ELSE IF Stage2StrictMode(settings) THEN "raised"
  ELSE "false"

\* The RuntimeError every failure of the runtime is raised as.
RuntimeError == [raised |-> TRUE]

\* Faulty variant: the heuristic keeps the flag of its probability.
ConfidenceFlagOfProbabilityOnly(inference_mode, top1_probability) ==
  IF top1_probability < 600000 THEN "LOW_CONFIDENCE" ELSE "NORMAL"

\* predict's confidence flag: LOW_CONFIDENCE below 0.60, and always in
\* heuristic mode.
ConfidenceFlag(inference_mode, top1_probability) ==
  IF inference_mode = "heuristic" THEN "LOW_CONFIDENCE"
  ELSE IF top1_probability < 600000 THEN "LOW_CONFIDENCE"
  ELSE "NORMAL"

\* predict's escalation flag.
EscalationFlag(top1_stage, top1_probability) ==
  IF top1_stage \in {"F3", "F4"} /\ top1_probability >= 650000
  THEN "SEVERE_STAGE_REVIEW"
  ELSE "NONE"

\* Faulty variant: the suffix is never added.
ResultModelVersionUnmarked(model_version, inference_mode) ==
  model_version

\* predict's model_version: the runtime's in ml mode, suffixed otherwise.
ResultModelVersion(model_version, inference_mode) ==
  IF inference_mode = "ml" THEN model_version
  ELSE Append(model_version, "::heuristic")

\* predict after _lazy_load_model: loaded is self._model, "model" or "false".
PredictWithModel(loaded, model_version, image) ==
  LET inference_mode == IF loaded = "model" THEN "ml" ELSE "heuristic"
      probs ==
        IF inference_mode = "ml" THEN image.ml_probs ELSE image.heuristic_probs
      ordered == OrderedStages(probs, DOMAIN probs)
      top1 == ordered[1]
  IN [softmax_vector |-> probs,
      top1 |-> top1,
      top2 |-> SubSeq(ordered, 1, 2),
      confidence_flag |-> ConfidenceFlag(inference_mode, top1.probability),
      escalation_flag |-> EscalationFlag(top1.stage, top1.probability),
      model_version |-> ResultModelVersion(model_version, inference_mode),
      inference_mode |-> inference_mode]

\* FibrosisModelRuntime(settings, model_version=...).predict(image_bytes):
\* a FibrosisPredictionResult, or RuntimeError from the constructor's
\* temperature load, the artifact contract check or the model load.
Predict(settings, model_version, image) ==
  IF Stage2StrictMode(settings) /\ settings.stage2_temperature = "corrupt"
  THEN RuntimeError
  ELSE IF Stage2ContractBroken(settings) THEN RuntimeError
  ELSE IF LazyLoadModel(settings) = "raised" THEN RuntimeError
  ELSE PredictWithModel(LazyLoadModel(settings), model_version, image)

\* ------------------------------------------------------- pure functions
Max(a, b) == IF a >= b THEN a ELSE b
Min(a, b) == IF a <= b THEN a ELSE b

Clamp(value, low, high) == Max(low, Min(high, value))

\* _clamp(offset / span, 0, 1) in units of 1/scale: clamping the quotient to
\* [0, 1] is clamping the numerator to [0, span].
Ramp(offset, span, scale) == (Clamp(offset, 0, span) * scale) \div span

\* 1 / (1 + exp(-value)) for value in millionths: the exact values at the
\* integers -8..8 joined by straight lines, flat outside.
SigmoidTable ==
  << 335, 911, 2473, 6693, 17986, 47426, 119203, 268941, 500000,
     731059, 880797, 952574, 982014, 993307, 997527, 999089, 999665 >>

Sigmoid(value) ==
  IF value <= -8 * Micro THEN SigmoidTable[1]
  ELSE IF value >= 8 * Micro THEN SigmoidTable[17]
  ELSE LET shifted == value + 8 * Micro
           k == shifted \div Micro
           frac == shifted % Micro
       IN SigmoidTable[k + 1]
          + ((SigmoidTable[k + 2] - SigmoidTable[k + 1]) * (frac \div 1000))
              \div 1000

NfsProxy(age, bmi, type2dm, ast, alt, platelets, albumin) ==
  LET ast_alt == (ast * Micro) \div alt
      diabetes == IF type2dm THEN 1 ELSE 0
  IN -1675000
     + 37000 * age
     + 9400 * bmi
     + 1130000 * diabetes
     + (99 * ast_alt) \div 100
     - 13000 * platelets
     - (66 * albumin) \div 100

BardScore(bmi, ast, alt, type2dm) ==
  (IF bmi >= 280 THEN 1 ELSE 0)
  + (IF 10 * ast >= 8 * alt THEN 2 ELSE 0)
  + (IF type2dm THEN 1 ELSE 0)

\* Twice the stage number, so that the default 1.5 is the integer 3.
StageNumeric2(top_stage) ==
  CASE top_stage = "F0" -> 0
    [] top_stage = "F1" -> 2
    [] top_stage = "F2" -> 4
    [] top_stage = "F3" -> 6
    [] top_stage = "F4" -> 8
    [] OTHER -> 3

\* Faulty variant: the CRITICAL tier starts at 0.90.
RiskTierFromScoreCriticalAt90(score) ==
  IF score >= 900000 THEN "CRITICAL"
  ELSE IF score >= 620000 THEN "HIGH"
  ELSE IF score >= 350000 THEN "MODERATE"
  ELSE "LOW"

\* _risk_tier_from_score, score in millionths.
RiskTierFromScore(score) ==
  IF score >= 820000 THEN "CRITICAL"
  ELSE IF score >= 620000 THEN "HIGH"
  ELSE IF score >= 350000 THEN "MODERATE"
  ELSE "LOW"

AlertThresholdForPpvTarget(ppv_target) ==
  IF ppv_target >= 90 THEN 780000
  ELSE IF ppv_target >= 85 THEN 700000
  ELSE 620000

\* Faulty variant: the 0.05 margin is left out.
DecompThresholdWithoutMargin(threshold) == threshold

\* threshold + 0.05 as the float sum evaluates: 0.62 + 0.05 and 0.7 + 0.05
\* are the doubles 0.67 and 0.75, while 0.78 + 0.05 is 0.8300000000000001,
\* one ulp above 0.83, so a 6-decimal score must exceed 0.83 to reach it.
DecompThreshold(threshold) ==
  IF threshold = 780000 THEN threshold + 50000 + 1 ELSE threshold + 50000

StageWeight(top_stage) ==
  CASE top_stage = "F0" -> 0
    [] top_stage = "F1" -> 1600
    [] top_stage = "F2" -> 3800
    [] top_stage = "F3" -> 6200
    [] top_stage = "F4" -> 8400
    [] OTHER -> 2000

\* estimate_stiffness_proxy: kPa in thousandths; the arguments are rows or
\* None.
EstimateStiffnessProxy(clinical_row, fibrosis_row) ==
  LET fib4 == IF clinical_row # None THEN clinical_row.fib4 \div 100 ELSE 140
      apri == IF clinical_row # None THEN clinical_row.apri \div 100 ELSE 60
      stage_weight ==
        StageWeight(IF fibrosis_row # None THEN fibrosis_row.top1_stage ELSE "")
      stage_prob ==
        IF fibrosis_row # None THEN fibrosis_row.top1_probability ELSE 550000
      bmi == IF clinical_row # None THEN clinical_row.bmi ELSE 275
      type2dm == IF clinical_row # None /\ clinical_row.type2dm THEN 1 ELSE 0
      raw == 4800
             + 19 * Max(fib4 - 100, 0)
             + 23 * Max(apri - 40, 0)
             + stage_weight
             + (18 * stage_prob) \div 10000
             + 6 * Max(bmi - 250, 0)
             + 900 * type2dm
  IN Max(2000, Min(75000, raw))


\* ---------------------------------------------------------------- state
VARIABLES
  env,                 \* environment, model requirements and artifact files
  scans,               \* ScanAsset rows
  registry,            \* ModelRegistry rows
  response,            \* what the latest Stage 1 / Stage 2 / registry call answered
  sessions,            \* database sessions of requests served side by side
  runtime,             \* a FibrosisModelRuntime instance kept across predictions
  cfg,                 \* Settings of the running process
  artifact_on_disk,    \* stage3_risk_model.joblib exists and loads
  model_cache,         \* lru_cache of _load_stage3_model: "unset", "none", "model"
  clinical,            \* ClinicalAssessment rows
  fibrosis,            \* FibrosisPrediction rows
  stiffness,           \* StiffnessMeasurement rows
  assessments,         \* Stage3Assessment rows
  explanations,        \* Stage3Explanation rows
  alerts,              \* RiskAlert rows
  batch,               \* run_scheduled_stage3_monitoring in progress / its result
  returned,            \* what the latest run_stage3_assessment call returned or raised
  clock                \* datetime.now(), one tick per alert status update

vars ==
  << env, scans, registry, response, sessions, runtime, cfg, artifact_on_disk, model_cache, clinical, fibrosis, stiffness,
     assessments, explanations, alerts, batch, returned, clock >>

RECURSIVE SortedSeq(_)
SortedSeq(S) ==
  IF S = {} THEN << >>
  ELSE LET m == CHOOSE x \in S : \A y \in S : x <= y
       IN << m >> \o SortedSeq(S \ {m})

\* Faulty variant: the first n elements.
FirstN(s, n) == IF Len(s) <= n THEN s ELSE SubSeq(s, 1, n)

\* The last n elements of a sequence.
LastN(s, n) == IF Len(s) <= n THEN s ELSE SubSeq(s, Len(s) - n + 1, Len(s))

RowsOf(table, patient_id) ==
  {i \in DOMAIN table : table[i].patient_id = patient_id}

\* Faulty variant: a cached "no model" is not reused, the directory is
\* looked at again.
LoadStage3ModelRetrying(cache, on_disk) ==
  IF cache = "model" THEN cache
  ELSE IF on_disk THEN "model" ELSE "none"

\* _load_stage3_model behind lru_cache: the first call decides, later calls
\* reuse the cached answer.
LoadStage3Model(cache, on_disk) ==
  IF cache # "unset" THEN cache
  ELSE IF on_disk THEN "model" ELSE "none"

\* _predict_artifact_scores: None when the load gave nothing or prediction
\* raised, else the scores derived from the model's probability p.
PredictArtifactScores(loaded, outcome) ==
  IF loaded # "model" \/ outcome.raised THEN None
  ELSE [composite |-> outcome.p,
        progression |-> Clamp((92 * outcome.p) \div 100 + 30000, 0, 990000),
        decomp |-> Clamp((72 * outcome.p) \div 100 + 50000, 0, 990000),
        model_version |-> << "multimodal-stage3-risk", "v1" >>]

\* Faulty variant: the late-stage addition is 0.10.
HeuristicDecompAddingTenth(composite_risk, stage_num2) ==
  Clamp((74 * composite_risk) \div 100
        + (IF stage_num2 >= 6 THEN 100000 ELSE 0), 0, 990000)

\* decomp_risk_12m of the heuristic branch of _compute_stage3.
HeuristicDecomp(composite_risk, stage_num2) ==
  Clamp((74 * composite_risk) \div 100
        + (IF stage_num2 >= 6 THEN 60000 ELSE 0), 0, 990000)

\* The keys of local_components, in the order the dict is built.
ComponentNames ==
  << "fib4_component", "apri_component", "stage_component",
     "stiffness_component", "nfs_component", "bard_component",
     "history_component", "quality_penalty" >>

\* sorted(local_components.items(), key=value, reverse=descending): the
\* sort is stable, so equal values stay in dict order in both directions.
SortedComponents(values, descending) ==
  LET Before(j, i) ==
        \/ IF descending THEN values[j] > values[i] ELSE values[j] < values[i]
        \/ values[j] = values[i] /\ j < i
      Position(i) == 1 + Cardinality({j \in DOMAIN values : Before(j, i)})
  IN [r \in DOMAIN values |-> CHOOSE i \in DOMAIN values : Position(i) = r]

\* local_feature_contrib_json: the five first of the descending order and
\* the three first of the ascending order.
LocalFeatureContrib(values) ==
  LET Item(i) == [feature |-> ComponentNames[i], contribution |-> values[i]]
      down == SortedComponents(values, TRUE)
      up == SortedComponents(values, FALSE)
  IN [positive |-> [r \in 1..5 |-> Item(down[r])],
      negative |-> [r \in 1..3 |-> Item(up[r])],
      raw_components |-> values]

\* Faulty variant: the history component is the distance of the previous
\* score from 1.
DeltaComponentOfHeadroom(previous_score) ==
  Clamp(Micro - Max(previous_score, 0), 0, Micro)

\* delta_component of _compute_stage3: the previous composite score.
DeltaComponent(previous_score) ==
  Clamp(Max(previous_score, 0), 0, Micro)

\* _compute_stage3.  clinical_row / fibrosis_row / previous are rows or None.
ComputeStage3(settings, clinical_row, fibrosis_row, stiffness_kpa, stiffness_source, previous, artifact, model_version_default) ==
  LET has_c == clinical_row # None
      has_f == fibrosis_row # None
      age == IF has_c THEN clinical_row.age ELSE 50
      bmi == IF has_c THEN clinical_row.bmi ELSE 280
      fib4 == IF has_c THEN clinical_row.fib4 \div 100 ELSE 140
      apri == IF has_c THEN clinical_row.apri \div 100 ELSE 60
      ast == IF has_c THEN clinical_row.ast ELSE 45
      alt == IF has_c THEN clinical_row.alt ELSE 40
      platelets == IF has_c THEN clinical_row.platelets ELSE 190
      type2dm == IF has_c THEN clinical_row.type2dm ELSE FALSE
      albumin_proxy ==
        Clamp(4300000 - 2500 * Max(ast - 35, 0), 2000000, 5500000)
      stage_num2 == StageNumeric2(IF has_f THEN fibrosis_row.top1_stage ELSE "")
      stage_prob == IF has_f THEN fibrosis_row.top1_probability ELSE 560000
      quality_valid ==
        IF has_f THEN fibrosis_row.quality_metrics.is_valid ELSE TRUE
      nfs_score == NfsProxy(age, bmi, type2dm, ast, alt, platelets, albumin_proxy)
      bard == BardScore(bmi, ast, alt, type2dm)
      previous_score ==
        IF previous # None THEN previous.composite_risk_score ELSE 0
      fib4_component == Ramp(fib4 - 110, 350, Micro)
      apri_component == Ramp(apri - 35, 160, Micro)
      stage_component ==
        Clamp((stage_num2 * 700000) \div 8 + (stage_prob * 3) \div 10, 0, Micro)
      stiffness_component == Ramp(stiffness_kpa - 3000, 22000, 1000) * 1000
      nfs_component == Clamp(Sigmoid((nfs_score * 2) \div 5), 0, Micro)
      bard_component == Clamp((bard * Micro) \div 4, 0, Micro)
      delta_component == DeltaComponent(previous_score)
      quality_penalty == IF ~quality_valid THEN 80000 ELSE 0
      heuristic_score ==
        Clamp((22 * fib4_component
               + 14 * apri_component
               + 22 * stage_component
               + 23 * stiffness_component
               + 10 * nfs_component
               + 5 * bard_component
               + 4 * delta_component) \div 100
              - quality_penalty,
              0, 990000)
      composite_risk ==
        IF artifact = None THEN heuristic_score ELSE artifact.composite
      progression ==
        IF artifact = None
        THEN Clamp((90 * heuristic_score) \div 100 + 50000, 0, 990000)
        ELSE artifact.progression
      decomp ==
        IF artifact = None
        THEN HeuristicDecomp(heuristic_score, stage_num2)
        ELSE artifact.decomp
      model_version ==
        IF artifact = None THEN Append(model_version_default, "::heuristic")
        ELSE artifact.model_version
  IN [composite_risk_score |-> composite_risk,
      progression_risk_12m |-> progression,
      decomp_risk_12m |-> decomp,
      risk_tier |-> RiskTierFromScore(composite_risk),
      model_version |-> model_version,
      local_feature_contrib_json |->
        LocalFeatureContrib(<< (22 * fib4_component) \div 100,
                               (14 * apri_component) \div 100,
                               (22 * stage_component) \div 100,
                               (23 * stiffness_component) \div 100,
                               (10 * nfs_component) \div 100,
                               (5 * bard_component) \div 100,
                               (4 * delta_component) \div 100,
                               0 - quality_penalty >>),
      feature_snapshot |->
        [stiffness_kpa |-> stiffness_kpa,
         stiffness_source |-> stiffness_source,
         quality_valid |-> quality_valid,
         previous_composite_score |-> previous_score,
         alert_score_threshold |->
           AlertThresholdForPpvTarget(settings.stage3_alert_ppv_target),
         alert_ppv_target |-> settings.stage3_alert_ppv_target]]

\* Faulty variant: a selected row is taken whoever its patient is.
ResolveSelectedOfAnyPatient(table, patient_id, selected_id) ==
  IF selected_id # NoId
  THEN IF selected_id \in DOMAIN table THEN selected_id ELSE NoId
  ELSE LET ids == RowsOf(table, patient_id)
       IN IF ids = {} THEN NoId ELSE CHOOSE i \in ids : \A j \in ids : j <= i

\* _resolve_selected_or_latest: the id of the row, NoId for None.
ResolveSelectedOrLatest(table, patient_id, selected_id) ==
  IF selected_id # NoId
  THEN IF selected_id \in DOMAIN table /\ table[selected_id].patient_id = patient_id
       THEN selected_id
       ELSE NoId
  ELSE LET ids == RowsOf(table, patient_id)
       IN IF ids = {} THEN NoId ELSE CHOOSE i \in ids : \A j \in ids : j <= i

\* _build_trend_points over the given tables.
BuildTrendPoints(assessment_rows, alert_rows, patient_id, limit) ==
  LET rows == LastN(SortedSeq(RowsOf(assessment_rows, patient_id)), limit)
      open_alerts ==
        {alert_rows[a].stage3_assessment_id :
           a \in {x \in RowsOf(alert_rows, patient_id) :
                    alert_rows[x].status = "open"}}
  IN [idx \in 1..Len(rows) |->
        [visit_index |-> idx,
         assessment_id |-> rows[idx],
         score |-> assessment_rows[rows[idx]].composite_risk_score,
         risk_tier |-> assessment_rows[rows[idx]].risk_tier,
         alert_state |-> IF rows[idx] \in open_alerts THEN "open" ELSE "none"]]

TrendLimit == 12


\* Faulty variant: the lookup forgets the status filter.
AlertsOfAnyStatus(alert_rows, patient_id, alert_type) ==
  {a \in DOMAIN alert_rows : /\ alert_rows[a].patient_id = patient_id
                             /\ alert_rows[a].alert_type = alert_type}

OpenAlertsOf(alert_rows, patient_id, alert_type) ==
  {a \in DOMAIN alert_rows :
     /\ alert_rows[a].patient_id = patient_id
     /\ alert_rows[a].alert_type = alert_type
     /\ alert_rows[a].status = "open"}

\* The candidates list of upsert_stage3_alerts, in the order it is built.
AlertCandidates(threshold, assessment) ==
  (IF /\ assessment.composite_risk_score >= threshold
      /\ assessment.risk_tier \in {"HIGH", "CRITICAL"}
   THEN << [alert_type |-> "ADVANCED_FIBROSIS_RISK",
            severity |-> IF assessment.risk_tier = "CRITICAL"
                         THEN "critical" ELSE "high",
            score |-> assessment.composite_risk_score] >>
   ELSE << >>)
  \o
  (IF assessment.decomp_risk_12m >= DecompThreshold(threshold)
   THEN << [alert_type |-> "DECOMPENSATION_RISK",
            severity |-> IF assessment.decomp_risk_12m >= 800000
                         THEN "critical" ELSE "high",
            score |-> assessment.decomp_risk_12m] >>
   ELSE << >>)

\* Faulty variant: the alert keeps the reference to its earlier assessment.
UpdateExistingAlertKeepsReference(row, threshold, assessment_id, cand) ==
  [row EXCEPT !.score = cand.score,
              !.threshold = threshold,
              !.severity = cand.severity]

\* The existing-alert branch of the loop: the row db.scalar returned is
\* overwritten in place.
UpdateExistingAlert(row, threshold, assessment_id, cand) ==
  [row EXCEPT !.score = cand.score,
              !.threshold = threshold,
              !.stage3_assessment_id = assessment_id,
              !.severity = cand.severity]

\* Faulty variant: the lookup of an open alert never finds one.
ExistingAlertNeverFound(open, picked) == NoId

\* existing = db.scalar(select open alerts of the patient and type): the
\* picked row when the session sees one, else nothing.
ExistingAlert(open, picked) ==
  IF open = {} THEN NoId ELSE picked

\* The loop of upsert_stage3_alerts.  acc is [alerts, created]; pick[t] is
\* the row db.scalar returns for type t when several open rows match (the
\* query has no ORDER BY).
RECURSIVE UpsertLoop(_, _, _, _, _, _, _)
UpsertLoop(acc, candidates, threshold, patient_id, assessment_id, created_by, pick) ==
  IF candidates = << >> THEN acc
  ELSE
    LET cand == Head(candidates)
        open == OpenAlertsOf(acc.alerts, patient_id, cand.alert_type)
        existing == ExistingAlert(open, pick[cand.alert_type])
        row == [patient_id |-> patient_id,
                stage3_assessment_id |-> assessment_id,
                created_by |-> created_by,
                alert_type |-> cand.alert_type,
                severity |-> cand.severity,
                threshold |-> threshold,
                score |-> cand.score,
                status |-> "open",
                resolved_at |-> NoId,
                created_at |-> assessment_id]
        next ==
          IF existing # NoId
          THEN [alerts |-> [acc.alerts EXCEPT ![existing] =
                              UpdateExistingAlert(@, threshold, assessment_id, cand)],
                created |-> acc.created]
          ELSE [alerts |-> Append(acc.alerts, row),
                created |-> Append(acc.created, Len(acc.alerts) + 1)]
    IN UpsertLoop(next, Tail(candidates), threshold, patient_id,
                  assessment_id, created_by, pick)

\* Faulty variant: the threshold ignores the configured PPV target.
UpsertThresholdOfDefaultTarget(settings) == AlertThresholdForPpvTarget(0)

UpsertThreshold(settings) ==
  AlertThresholdForPpvTarget(settings.stage3_alert_ppv_target)

\* Faulty variant: open alerts of the patient whose type no longer
\* qualifies are closed before the loop.
UpsertStage3AlertsClosingStale(alert_rows, settings, assessment, assessment_id, created_by, pick) ==
  LET cands == AlertCandidates(UpsertThreshold(settings), assessment)
      types == {cands[i].alert_type : i \in DOMAIN cands}
      swept ==
        [a \in DOMAIN alert_rows |->
           IF /\ alert_rows[a].patient_id = assessment.patient_id
              /\ alert_rows[a].status = "open"
              /\ alert_rows[a].alert_type \notin types
           THEN [alert_rows[a] EXCEPT !.status = "closed"]
           ELSE alert_rows[a]]
  IN UpsertLoop([alerts |-> swept, created |-> << >>], cands,
                UpsertThreshold(settings), assessment.patient_id,
                assessment_id, created_by, pick)

UpsertStage3Alerts(alert_rows, settings, assessment, assessment_id, created_by, pick) ==
  UpsertLoop([alerts |-> alert_rows, created |-> << >>],
             AlertCandidates(UpsertThreshold(settings), assessment),
             UpsertThreshold(settings), assessment.patient_id,
             assessment_id, created_by, pick)

\* The rows db.scalar may return, per alert type, for a patient.
PickOf(alert_rows, patient_id, alert_type) ==
  IF OpenAlertsOf(alert_rows, patient_id, alert_type) = {}
  THEN {NoId}
  ELSE OpenAlertsOf(alert_rows, patient_id, alert_type)

ValidPicks(alert_rows, patient_id) ==
  {[ADVANCED_FIBROSIS_RISK |-> a, DECOMPENSATION_RISK |-> d] :
     a \in PickOf(alert_rows, patient_id, "ADVANCED_FIBROSIS_RISK"),
     d \in PickOf(alert_rows, patient_id, "DECOMPENSATION_RISK")}

\* Faulty variant: the proxy fallback is taken even when it is disabled.
Stage3ErrorForProxyAlways(settings, cid, fid, sid) ==
  IF ~settings.stage3_enabled THEN "Stage 3 is disabled"
  ELSE IF cid = NoId /\ fid = NoId
  THEN "Stage 3 requires at least one prior Stage 1 or Stage 2 assessment"
  ELSE ""

\* The three raise statements of run_stage3_assessment, in order; "" when
\* none is reached.  cid / fid / sid are the resolved rows' ids.
Stage3ErrorFor(settings, cid, fid, sid) ==
  IF ~settings.stage3_enabled THEN "Stage 3 is disabled"
  ELSE IF cid = NoId /\ fid = NoId
  THEN "Stage 3 requires at least one prior Stage 1 or Stage 2 assessment"
  ELSE IF sid = NoId /\ ~settings.stage3_stiffness_proxy_enabled
  THEN "No stiffness measurement found and proxy fallback is disabled"
  ELSE ""

\* Faulty variant: an estimate is stored again when the resolved row is
\* itself an estimate.
WithProxyRowRefreshed(table, sid, patient_id, performed_by, estimated_kpa) ==
  IF sid = NoId \/ table[sid].source = "PROXY"
  THEN Append(table, [patient_id |-> patient_id, entered_by |-> performed_by,
                      measured_kpa |-> estimated_kpa, source |-> "PROXY"])
  ELSE table

\* The StiffnessMeasurement table after the proxy branch of
\* run_stage3_assessment: a PROXY row is added when no row was resolved.
WithProxyRow(table, sid, patient_id, performed_by, estimated_kpa) ==
  IF sid = NoId
  THEN Append(table, [patient_id |-> patient_id, entered_by |-> performed_by,
                      measured_kpa |-> estimated_kpa, source |-> "PROXY"])
  ELSE table

NoChange(error) ==
  [error |-> error, stiffness |-> stiffness, assessments |-> assessments,
   explanations |-> explanations, alerts |-> alerts,
   model_cache |-> model_cache, assessment_id |-> NoId, created |-> << >>,
   artifact_scored |-> FALSE]

\* run_stage3_assessment on the current tables.  The result carries the
\* Stage3Error message ("" when none was raised), the tables after it, and
\* whether _predict_artifact_scores returned scores.
RunStage3Assessment(settings, patient_id, performed_by, clinical_assessment_id, fibrosis_prediction_id, stiffness_measurement_id, outcome, pick) ==
  LET cid == ResolveSelectedOrLatest(clinical, patient_id, clinical_assessment_id)
      fid == ResolveSelectedOrLatest(fibrosis, patient_id, fibrosis_prediction_id)
      sid == ResolveSelectedOrLatest(stiffness, patient_id, stiffness_measurement_id)
      clinical_row == IF cid = NoId THEN None ELSE clinical[cid]
      fibrosis_row == IF fid = NoId THEN None ELSE fibrosis[fid]
  IN
  IF Stage3ErrorFor(settings, cid, fid, sid) # ""
  THEN NoChange(Stage3ErrorFor(settings, cid, fid, sid))
  ELSE
    LET stiffness1 ==
          WithProxyRow(stiffness, sid, patient_id, performed_by,
                       EstimateStiffnessProxy(clinical_row, fibrosis_row))
        stiffness_id == IF sid = NoId THEN Len(stiffness1) ELSE sid
        stiffness_row == stiffness1[stiffness_id]
        prev_id == ResolveSelectedOrLatest(assessments, patient_id, NoId)
        previous == IF prev_id = NoId THEN None ELSE assessments[prev_id]
        stage3_model_version ==
          FormatModelVersion(GetActiveModel(registry, Stage3RegistryModelName),
                             Stage3RegistryModelName, "v1")
        loaded == LoadStage3Model(model_cache, artifact_on_disk)
        computed ==
          ComputeStage3(settings, clinical_row, fibrosis_row,
                        stiffness_row.measured_kpa, stiffness_row.source,
                        previous, PredictArtifactScores(loaded, outcome),
                        stage3_model_version)
        assessment ==
          [patient_id |-> patient_id,
           clinical_assessment_id |-> cid,
           fibrosis_prediction_id |-> fid,
           stiffness_measurement_id |-> stiffness_id,
           performed_by |-> performed_by,
           composite_risk_score |-> computed.composite_risk_score,
           progression_risk_12m |-> computed.progression_risk_12m,
           decomp_risk_12m |-> computed.decomp_risk_12m,
           risk_tier |-> computed.risk_tier,
           model_version |-> computed.model_version,
           feature_snapshot_json |-> computed.feature_snapshot]
        assessments1 == Append(assessments, assessment)
        assessment_id == Len(assessments1)
        explanation ==
          [stage3_assessment_id |-> assessment_id,
           local_feature_contrib_json |-> computed.local_feature_contrib_json,
           global_reference_version |-> computed.model_version,
           trend_points_json |->
             BuildTrendPoints(assessments1, alerts, patient_id, TrendLimit)]
        upserted ==
          UpsertStage3Alerts(alerts, settings, assessment, assessment_id,
                             performed_by, pick)
    IN [error |-> "",
        stiffness |-> stiffness1,
        assessments |-> assessments1,
        explanations |-> Append(explanations, explanation),
        alerts |-> upserted.alerts,
        model_cache |-> loaded,
        assessment_id |-> assessment_id,
        created |-> upserted.created,
        artifact_scored |-> PredictArtifactScores(loaded, outcome) # None]


\* ------------------------------------------------------------ operations
\* The database sessions of two requests that are served at the same time,
\* one session per request (get_db), and a session that holds nothing.
SessionIds == {"request-1", "request-2"}
IdleSession ==
  [pc |-> "idle", patient_id |-> NoId, seen_alerts |-> << >>,
   stiffness_rows |-> << >>, assessment |-> None, explanation |-> None,
   inserted |-> << >>, updated |-> {}, artifact_scored |-> FALSE]
NoSessions == [s \in SessionIds |-> IdleSession]

\* No FibrosisModelRuntime has been constructed.
NoRuntime == [_model |-> "unbuilt", pred |-> None, calls |-> 0]

BatchIdle ==
  [pc |-> "idle", status |-> "", patients |-> << >>, idx |-> 0,
   processed |-> 0, alerts_created |-> 0, failures |-> << >>,
   attempted |-> << >>, alerts_before |-> 0]

Init ==
  /\ env = DefaultEnvironment
  /\ scans = << >>
  /\ registry = DefaultModels
  /\ response = NoResponse
  /\ sessions = NoSessions
  /\ runtime = NoRuntime
  /\ cfg \in Configs
  /\ artifact_on_disk = FALSE
  /\ model_cache = "unset"
  /\ \E seed \in Seeds : clinical = seed.clinical /\ fibrosis = seed.fibrosis
  /\ stiffness = << >>
  /\ assessments = << >>
  /\ explanations = << >>
  /\ alerts = << >>
  /\ batch = BatchIdle
  /\ returned = [error |-> "", assessment_id |-> NoId, created |-> << >>,
                 artifact_scored |-> FALSE]
  /\ clock = 1

\* No request is served in the middle of a batch: the batch runs in one
\* session and one transaction, from its start to its return.
CanServe == batch.pc = "idle"

\* POST /patients/{patient_id}/stiffness
CreateStiffnessMeasurement(patient_id, user, kpa) ==
  /\ CanServe
  /\ cfg.stage3_enabled
  /\ Len(stiffness) < MaxMeasurements
  /\ stiffness' = Append(stiffness,
                         [patient_id |-> patient_id, entered_by |-> user,
                          measured_kpa |-> kpa, source |-> "MEASURED"])
  /\ UNCHANGED << env, scans, registry, response, runtime, sessions, cfg, artifact_on_disk, model_cache, clinical, fibrosis,
                  assessments, explanations, alerts, batch, returned, clock >>

ApplyRun(result) ==
  /\ returned' = [error |-> result.error,
                  assessment_id |-> result.assessment_id,
                  created |-> result.created,
                  artifact_scored |-> result.artifact_scored]
  /\ stiffness' = result.stiffness
  /\ assessments' = result.assessments
  /\ explanations' = result.explanations
  /\ alerts' = result.alerts
  /\ model_cache' = result.model_cache

\* Ids a request can name: none, a row of the patient, or an id that is not
\* the patient's (the latest row of another patient, else no row at all).
SelectableIds(table, patient_id) ==
  LET foreign == DOMAIN table \ RowsOf(table, patient_id)
      not_own == IF foreign = {} THEN Len(table) + 1
                 ELSE CHOOSE i \in foreign : \A j \in foreign : j <= i
  IN {NoId} \cup RowsOf(table, patient_id) \cup {not_own}

\* POST /assessments/stage3
RunStage3(patient_id, user, cid, fid, sid, outcome, pick) ==
  /\ CanServe
  /\ cfg.stage3_enabled
  /\ Len(assessments) < MaxRuns
  /\ \E result \in {RunStage3Assessment(cfg, patient_id, user, cid, fid, sid,
                                         outcome, pick)} :
       ApplyRun(result)
  /\ UNCHANGED << env, scans, registry, response, runtime, sessions, cfg, artifact_on_disk, clinical, fibrosis, batch, clock >>

\* POST /reports: runs Stage 3 on the latest clinical and fibrosis rows and
\* swallows a Stage3Error.
GenerateReport(patient_id, user, outcome, pick) ==
  /\ CanServe
  /\ cfg.stage3_enabled
  /\ Len(assessments) < MaxRuns
  /\ LET cid == ResolveSelectedOrLatest(clinical, patient_id, NoId)
         fid == ResolveSelectedOrLatest(fibrosis, patient_id, NoId)
     IN /\ cid # NoId \/ fid # NoId
        /\ \E result \in {RunStage3Assessment(cfg, patient_id, user, cid, fid,
                                                NoId, outcome, pick)} :
             ApplyRun(result)
  /\ UNCHANGED << env, scans, registry, response, runtime, sessions, cfg, artifact_on_disk, clinical, fibrosis, batch, clock >>

\* The two assignments of update_stage3_alert_status.
SetAlertStatus(row, status, now) ==
  [row EXCEPT !.status = status,
              !.resolved_at = IF status = "closed" THEN now ELSE @]

\* POST /patients/{patient_id}/alerts/{alert_id}/status
UpdateStage3AlertStatus(patient_id, alert_id, status) ==
  /\ CanServe
  /\ cfg.stage3_enabled
  /\ clock <= MaxStatusUpdates
  /\ IF alert_id \in DOMAIN alerts /\ alerts[alert_id].patient_id = patient_id
     THEN /\ alerts' = [alerts EXCEPT ![alert_id] = SetAlertStatus(@, status, clock)]
          /\ clock' = clock + 1
     ELSE UNCHANGED << alerts, clock >>
  /\ UNCHANGED << env, scans, registry, response, runtime, sessions, cfg, artifact_on_disk, model_cache, clinical, fibrosis,
                  stiffness, assessments, explanations, batch, returned >>

\* The fusion model artifact is deployed to the artifact directory.
InstallArtifact ==
  /\ CanServe
  /\ ~artifact_on_disk
  /\ artifact_on_disk' = TRUE
  /\ UNCHANGED << env, scans, registry, response, runtime, sessions, cfg, model_cache, clinical, fibrosis, stiffness,
                  assessments, explanations, alerts, batch, returned, clock >>

\* run_scheduled_stage3_monitoring, up to the patient loop.
BatchStart ==
  /\ CanServe
  /\ IF ~cfg.stage3_enabled
     THEN batch' = [BatchIdle EXCEPT !.pc = "done", !.status = "SKIPPED",
                                     !.alerts_before = Len(alerts)]
     ELSE batch' = [BatchIdle EXCEPT !.pc = "running",
                                     !.patients = SortedSeq(Patients),
                                     !.idx = 1,
                                     !.alerts_before = Len(alerts)]
  /\ UNCHANGED << env, scans, registry, response, runtime, sessions, cfg, artifact_on_disk, model_cache, clinical, fibrosis,
                  stiffness, assessments, explanations, alerts, returned, clock >>

\* The rest of the try body after run_stage3_assessment returned.
BatchOnSuccess(b, patient_id, created_alerts) ==
  [b EXCEPT !.idx = @ + 1,
            !.processed = @ + 1,
            !.alerts_created = @ + Len(created_alerts),
            !.attempted = Append(@, patient_id)]

\* Faulty variant: the first failure ends the loop.
BatchOnStage3ErrorAborts(b, patient_id) ==
  [b EXCEPT !.idx = Len(b.patients) + 1,
            !.failures = Append(@, patient_id),
            !.attempted = Append(@, patient_id)]

\* The except branch: the failure is recorded and the loop goes on.
BatchOnStage3Error(b, patient_id) ==
  [b EXCEPT !.idx = @ + 1,
            !.failures = Append(@, patient_id),
            !.attempted = Append(@, patient_id)]

\* One iteration of the patient loop: the try body or the except branch.
BatchPatient(outcome) ==
  /\ batch.pc = "running"
  /\ batch.idx <= Len(batch.patients)
  /\ Len(assessments) < MaxRuns
  /\ \E pick \in ValidPicks(alerts, batch.patients[batch.idx]) :
     \E result \in {RunStage3Assessment(cfg, batch.patients[batch.idx], NoId,
                                         NoId, NoId, NoId, outcome, pick)} :
        /\ ApplyRun(result)
        /\ batch' =
             IF result.error = ""
             THEN BatchOnSuccess(batch, batch.patients[batch.idx], result.created)
             ELSE BatchOnStage3Error(batch, batch.patients[batch.idx])
  /\ UNCHANGED << env, scans, registry, response, runtime, sessions, cfg, artifact_on_disk, clinical, fibrosis, clock >>

\* The loop is over: the summary is returned.
BatchReturn ==
  /\ batch.pc = "running"
  /\ batch.idx > Len(batch.patients)
  /\ batch' = [batch EXCEPT !.pc = "done", !.status = "OK"]
  /\ UNCHANGED << env, scans, registry, response, runtime, sessions, cfg, artifact_on_disk, model_cache, clinical, fibrosis,
                  stiffness, assessments, explanations, alerts, returned, clock >>

\* What model.predict / predict_proba can do in the next run: it is called
\* only when a model is loaded.
ModelCallOutcomes ==
  IF LoadStage3Model(model_cache, artifact_on_disk) = "model"
  THEN PredictOutcomes
  ELSE {NotPredicted}

\* The caller has the summary; the next scheduled run starts afresh.
BatchFinish ==
  /\ batch.pc = "done"
  /\ batch' = BatchIdle
  /\ UNCHANGED << env, scans, registry, response, runtime, sessions, cfg, artifact_on_disk, model_cache, clinical, fibrosis,
                  stiffness, assessments, explanations, alerts, returned, clock >>

Next ==
  \/ \E p \in Patients, u \in Users, k \in MeasuredKpa :
       CreateStiffnessMeasurement(p, u, k)
  \/ \E p \in Patients, u \in Users, outcome \in ModelCallOutcomes :
       \E cid \in SelectableIds(clinical, p), fid \in SelectableIds(fibrosis, p),
          sid \in SelectableIds(stiffness, p), pick \in ValidPicks(alerts, p) :
         RunStage3(p, u, cid, fid, sid, outcome, pick)
  \/ \E p \in Patients, u \in Users, outcome \in ModelCallOutcomes :
       \E pick \in ValidPicks(alerts, p) :
         GenerateReport(p, u, outcome, pick)
  \/ \E p \in Patients, a \in 1..(Len(alerts) + 1), st \in StatusValues :
       UpdateStage3AlertStatus(p, a, st)
  \/ BatchStart
  \/ \E outcome \in ModelCallOutcomes : BatchPatient(outcome)
  \/ BatchReturn
  \/ BatchFinish

Spec == Init /\ [][Next]_vars

\* The fusion engine with the learned model in play: the artifact may be
\* deployed before the first run or after the loader has cached its absence.
FusionInit ==
  /\ Init
  /\ cfg = Settings(80, TRUE, TRUE)

FusionNext ==
  \/ \E p \in Patients, u \in Users, outcome \in ModelCallOutcomes :
       \E cid \in SelectableIds(clinical, p), fid \in SelectableIds(fibrosis, p),
          sid \in SelectableIds(stiffness, p), pick \in ValidPicks(alerts, p) :
         RunStage3(p, u, cid, fid, sid, outcome, pick)
  \/ InstallArtifact

FusionSpec == FusionInit /\ [][FusionNext]_vars

\* The alert lifecycle on its own: runs requested through the API or by a
\* report, with the proxy fallback supplying stiffness, and status updates.
AlertInit ==
  /\ Init
  /\ cfg.stage3_enabled
  /\ cfg.stage3_stiffness_proxy_enabled

AlertNext ==
  \/ \E p \in Patients, u \in Users, outcome \in ModelCallOutcomes :
       \E cid \in SelectableIds(clinical, p), fid \in SelectableIds(fibrosis, p),
          sid \in SelectableIds(stiffness, p), pick \in ValidPicks(alerts, p) :
         RunStage3(p, u, cid, fid, sid, outcome, pick)
  \/ \E p \in Patients, u \in Users, outcome \in ModelCallOutcomes :
       \E pick \in ValidPicks(alerts, p) :
         GenerateReport(p, u, outcome, pick)
  \/ \E p \in Patients, a \in 1..(Len(alerts) + 1), st \in StatusValues :
       UpdateStage3AlertStatus(p, a, st)

AlertSpec == AlertInit /\ [][AlertNext]_vars

\* The scheduled monitoring batch on its own, over patients with and
\* without measured stiffness.
MonitoringNext ==
  \/ \E p \in Patients, u \in Users, k \in MeasuredKpa :
       CreateStiffnessMeasurement(p, u, k)
  \/ BatchStart
  \/ \E outcome \in ModelCallOutcomes : BatchPatient(outcome)
  \/ BatchReturn
  \/ BatchFinish

MonitoringSpec == Init /\ [][MonitoringNext]_vars


\* ------------------------------------------------------- Stage 1 requests
\* The variables of the fusion engine and of long-lived objects, which the
\* Stage 1, Stage 2 and registry requests never touch.
stage3_vars ==
  << sessions, runtime, cfg, artifact_on_disk, model_cache, stiffness, assessments, explanations,
     alerts, batch, returned, clock >>

\* The fusion engine before its first request.
Stage3AtRest ==
  /\ sessions = NoSessions
  /\ runtime = NoRuntime
  /\ cfg = Settings(80, TRUE, TRUE)
  /\ artifact_on_disk = FALSE
  /\ model_cache = "unset"
  /\ stiffness = << >>
  /\ assessments = << >>
  /\ explanations = << >>
  /\ alerts = << >>
  /\ batch = BatchIdle
  /\ returned = [error |-> "", assessment_id |-> NoId, created |-> << >>,
                 artifact_scored |-> FALSE]
  /\ clock = 1

\* Faulty variant: the requirement applies in development too.
Stage1ModelRequiredEverywhere(settings) ==
  settings.stage1_require_model_non_dev

\* The condition under which run_clinical_assessment turns
\* Stage1ModelUnavailableError into a 503.
Stage1ModelRequired(settings) ==
  settings.stage1_require_model_non_dev /\ ~settings.is_local_dev

\* POST /assessments/clinical.  The response keeps the rule engine's result
\* and what predict_stage1_ml signalled next to the status code.
RunClinicalAssessment(patient_id, user, payload, answer) ==
  /\ CanServe
  /\ Len(clinical) < MaxClinical
  /\ LET rule_result ==
           RunStage1(payload.age, payload.ast, payload.alt, payload.platelets,
                     payload.ast_uln, payload.bmi, payload.type2dm)
         active_stage1_model == GetActiveModel(registry, Stage1RegistryModelName)
         stage1_model_version ==
           IF active_stage1_model # None
           THEN FormatModelVersion(active_stage1_model, Stage1RegistryModelName, "v1")
           ELSE None
         ml_result ==
           IF env.stage1_ml_enabled
           THEN PredictStage1Ml(env.stage1_artifacts, answer, stage1_model_version)
           ELSE None
         ml_signal ==
           IF ml_result = None THEN "disabled"
           ELSE IF ml_result = Stage1ModelUnavailableError THEN "unavailable"
           ELSE IF ml_result = [raised |-> TRUE] THEN "raised"
           ELSE "prediction"
         result ==
           IF ml_signal = "prediction"
           THEN [fib4 |-> rule_result.fib4,
                 apri |-> rule_result.apri,
                 risk_tier |-> ml_result.risk_tier,
                 probability |-> ml_result.probability,
                 model_version |-> ml_result.model_version]
           ELSE rule_result
         status_code ==
           IF ml_signal = "raised" THEN 500
           ELSE IF ml_signal = "unavailable" /\ Stage1ModelRequired(env)
           THEN 503
           ELSE 200
         row ==
           [patient_id |-> patient_id,
            performed_by |-> user,
            age |-> payload.age,
            bmi |-> payload.bmi,
            fib4 |-> result.fib4,
            apri |-> result.apri,
            ast |-> payload.ast,
            alt |-> payload.alt,
            platelets |-> payload.platelets,
            ast_uln |-> payload.ast_uln,
            type2dm |-> payload.type2dm,
            risk_tier |-> result.risk_tier,
            probability |-> result.probability,
            model_version |-> result.model_version]
     IN /\ clinical' = IF status_code = 200 THEN Append(clinical, row) ELSE clinical
        /\ response' = [call |-> "clinical",
                        status_code |-> status_code,
                        rule_result |-> rule_result,
                        ml_signal |-> ml_signal,
                        ml_result |-> ml_result]
  /\ UNCHANGED << env, scans, registry, fibrosis, stage3_vars >>

\* The deployments of Stage 1: strict or not, with and without the trained
\* artifacts, and with the override switched off.
Stage1Environments ==
  { Environment(FALSE, TRUE, TRUE, "warn", "missing", "missing", "missing"),
    Environment(FALSE, TRUE, TRUE, "warn", "ok", "missing", "missing"),
    Environment(FALSE, TRUE, FALSE, "warn", "corrupt", "missing", "missing"),
    Environment(TRUE, TRUE, TRUE, "warn", "missing", "missing", "missing"),
    Environment(TRUE, TRUE, TRUE, "warn", "ok", "missing", "missing"),
    Environment(FALSE, FALSE, TRUE, "warn", "missing", "missing", "missing") }

\* The registry with the Stage 1 model active, and with no active Stage 1
\* model.
Stage1Registries ==
  { DefaultModels,
    [DefaultModels EXCEPT ![1] = RegistryRow("clinical-stage1-gbdt", "v1", FALSE)] }

Stage1Init ==
  /\ env \in Stage1Environments
  /\ registry \in Stage1Registries
  /\ scans = << >>
  /\ response = NoResponse
  /\ clinical = << >>
  /\ fibrosis = << >>
  /\ Stage3AtRest

Stage1Next ==
  \E p \in Patients, u \in Users, payload \in ClinicalPayloads,
     answer \in Stage1ModelAnswers :
    RunClinicalAssessment(p, u, payload, answer)

Stage1Spec == Stage1Init /\ [][Stage1Next]_vars

\* ------------------------------------------------------- Stage 2 requests
\* A ScanAsset row after its upload was confirmed.
ScanRow(patient_id, image) ==
  [patient_id |-> patient_id, status |-> "UPLOADED", image |-> image]

\* Faulty variant: the warning is lost.
ProcessedStatusWithoutWarning(quality_warned) == "PROCESSED"

\* The status a scan gets once its prediction is stored.
ProcessedStatus(quality_warned) ==
  IF quality_warned THEN "PROCESSED_WITH_WARNINGS" ELSE "PROCESSED"

\* POST /assessments/fibrosis.  The response keeps the quality verdict and
\* what the runtime returned next to the status code.
RunFibrosisAssessment(patient_id, user, scan_asset_id) ==
  /\ CanServe
  /\ Len(fibrosis) < MaxPredictions
  /\ IF scan_asset_id \notin DOMAIN scans
        \/ scans[scan_asset_id].patient_id # patient_id
     THEN /\ response' = [call |-> "fibrosis", status_code |-> 404,
                          scan_asset_id |-> scan_asset_id,
                          quality |-> None, pred |-> None]
          /\ UNCHANGED << scans, fibrosis >>
     ELSE
       LET image == scans[scan_asset_id].image
           gate == env.resolved_stage2_quality_gate
           quality == EvaluateQuality(image)
           stage2_model_version ==
             FormatModelVersion(GetActiveModel(registry, Stage2RegistryModelName),
                                Stage2RegistryModelName, "v1")
           pred == Predict(env, stage2_model_version, image)
           Reject(status_code, scan_status, verdict) ==
             /\ response' = [call |-> "fibrosis", status_code |-> status_code,
                             scan_asset_id |-> scan_asset_id,
                             quality |-> verdict, pred |-> None]
             /\ scans' = IF scan_status = "" THEN scans
                         ELSE [scans EXCEPT ![scan_asset_id].status = scan_status]
             /\ UNCHANGED fibrosis
           row ==
             [patient_id |-> patient_id,
              scan_asset_id |-> scan_asset_id,
              performed_by |-> user,
              model_version |-> pred.model_version,
              softmax_vector |-> pred.softmax_vector,
              top1_stage |-> pred.top1.stage,
              top1_probability |-> pred.top1.probability,
              top2 |-> pred.top2,
              confidence_flag |-> pred.confidence_flag,
              escalation_flag |-> pred.escalation_flag,
              quality_metrics |->
                [is_valid |-> quality.is_valid,
                 reason_codes |-> quality.reason_codes,
                 gate |-> gate]]
       IN IF ~image.available THEN Reject(422, "", None)
          ELSE IF ~image.av_ok THEN Reject(422, "SECURITY_REJECTED", None)
          ELSE IF ~image.format_ok THEN Reject(422, "FORMAT_REJECTED", None)
          ELSE IF ~quality.is_valid /\ gate = "strict"
          THEN Reject(422, "QUALITY_REJECTED", quality)
          ELSE IF pred = RuntimeError
          THEN /\ response' = [call |-> "fibrosis", status_code |-> 503,
                               scan_asset_id |-> scan_asset_id,
                               quality |-> quality, pred |-> pred]
               /\ UNCHANGED << scans, fibrosis >>
          ELSE /\ fibrosis' = Append(fibrosis, row)
               /\ scans' =
                    [scans EXCEPT ![scan_asset_id].status =
                       ProcessedStatus(~quality.is_valid)]
               /\ response' = [call |-> "fibrosis", status_code |-> 200,
                               scan_asset_id |-> scan_asset_id,
                               quality |-> quality, pred |-> pred]
  /\ UNCHANGED << env, registry, clinical, stage3_vars >>

\* The deployments of Stage 2: development and not, the trained model
\* required or not, both quality gates, and the artifacts present, missing
\* or unreadable.
Stage2Environments ==
  { Environment(TRUE, TRUE, TRUE, "warn", "missing", "missing", "missing"),
    Environment(TRUE, TRUE, TRUE, "strict", "missing", "ok", "ok"),
    Environment(FALSE, TRUE, TRUE, "strict", "missing", "ok", "ok"),
    Environment(FALSE, TRUE, TRUE, "warn", "missing", "ok", "ok"),
    Environment(FALSE, TRUE, TRUE, "warn", "missing", "missing", "ok"),
    Environment(FALSE, TRUE, TRUE, "warn", "missing", "corrupt", "ok"),
    Environment(FALSE, TRUE, TRUE, "warn", "missing", "ok", "missing"),
    Environment(FALSE, TRUE, TRUE, "warn", "missing", "ok", "corrupt"),
    Environment(FALSE, TRUE, FALSE, "warn", "missing", "corrupt", "corrupt"),
    Environment(FALSE, TRUE, FALSE, "strict", "missing", "missing", "ok") }

\* Patient 1 has uploaded every image once.
UploadedScans == [i \in DOMAIN Images |-> ScanRow(1, Images[i])]

Stage2Init ==
  /\ env \in Stage2Environments
  /\ registry = DefaultModels
  /\ scans = UploadedScans
  /\ response = NoResponse
  /\ clinical = << >>
  /\ fibrosis = << >>
  /\ Stage3AtRest

Stage2Next ==
  \E p \in Patients, u \in Users, scan_asset_id \in 1..(Len(scans) + 1) :
    RunFibrosisAssessment(p, u, scan_asset_id)

Stage2Spec == Stage2Init /\ [][Stage2Next]_vars

\* ------------------------------------------------- provenance of results
\* Stage 2 and Stage 3 side by side: a patient with a clinical assessment
\* and two uploaded scans, the Stage 2 model present or not, the fusion
\* artifact deployed at some moment, and the registry with its seeded rows
\* or with newer active versions.
ProvenanceRegistries ==
  { DefaultModels,
    DefaultModels \o << RegistryRow("fibrosis-efficientnet-b3", "v2", TRUE),
                        RegistryRow("multimodal-stage3-risk", "v2", TRUE) >> }

ProvenanceInit ==
  /\ env \in { Environment(TRUE, TRUE, TRUE, "warn", "missing", "missing", "missing"),
               Environment(FALSE, TRUE, TRUE, "warn", "missing", "ok", "ok") }
  /\ registry \in ProvenanceRegistries
  /\ scans = SubSeq(UploadedScans, 1, 2)
  /\ response = NoResponse
  /\ clinical = << ClinicalRow(1) >>
  /\ fibrosis = << >>
  /\ Stage3AtRest

ProvenanceNext ==
  \/ \E u \in Users, scan_asset_id \in DOMAIN scans :
       RunFibrosisAssessment(1, u, scan_asset_id)
  \/ \E p \in Patients, u \in Users, outcome \in ModelCallOutcomes :
       \E pick \in ValidPicks(alerts, p) :
         RunStage3(p, u, NoId, NoId, NoId, outcome, pick)
  \/ InstallArtifact

ProvenanceSpec == ProvenanceInit /\ [][ProvenanceNext]_vars

\* ---------------------------------------------------------- trend series
\* Two patients followed over many visits: each visit is a POST
\* /assessments/stage3 that names no rows, so the latest are taken, with no
\* fusion artifact deployed.
TrendPatients == {1, 2}

RunStage3Visit(patient_id, user) ==
  /\ CanServe
  /\ cfg.stage3_enabled
  /\ Len(assessments) < MaxVisits
  /\ \E pick \in ValidPicks(alerts, patient_id) :
       \E result \in {RunStage3Assessment(cfg, patient_id, user, NoId, NoId,
                                           NoId, NotPredicted, pick)} :
         ApplyRun(result)
  /\ UNCHANGED << env, scans, registry, response, runtime, sessions, cfg, artifact_on_disk,
                  clinical, fibrosis, batch, clock >>

TrendInit ==
  /\ env = DefaultEnvironment
  /\ registry = DefaultModels
  /\ scans = << >>
  /\ response = NoResponse
  /\ clinical = << ClinicalRow(1), ClinicalRow(2) >>
  /\ fibrosis = << >>
  /\ Stage3AtRest

TrendNext ==
  \E p \in TrendPatients, u \in Users : RunStage3Visit(p, u)

TrendSpec == TrendInit /\ [][TrendNext]_vars

\* The rule engine on its own: map_risk_tier and map_probability applied to
\* values on and around every threshold.
Fib4Values == {0, 12999, 13000, 20000, 26700, 26701}
ApriValues == {0, 4999, 5000, 9999, 10000}
BmiValues == {299, 300, 310}

ApplyRuleEngine(fib4, apri, bmi, type2dm) ==
  /\ response' =
       [call |-> "rule_engine",
        fib4 |-> fib4,
        apri |-> apri,
        bmi |-> bmi,
        type2dm |-> type2dm,
        risk_tier |-> MapRiskTier(fib4, apri),
        probability |-> MapProbability(MapRiskTier(fib4, apri), bmi, type2dm)]
  /\ UNCHANGED << env, scans, registry, clinical, fibrosis, stage3_vars >>

RuleInit ==
  /\ env = DefaultEnvironment
  /\ registry = DefaultModels
  /\ scans = << >>
  /\ response = NoResponse
  /\ clinical = << >>
  /\ fibrosis = << >>
  /\ Stage3AtRest

RuleNext ==
  \E fib4 \in Fib4Values, apri \in ApriValues, bmi \in BmiValues,
     type2dm \in BOOLEAN :
    ApplyRuleEngine(fib4, apri, bmi, type2dm)

RuleSpec == RuleInit /\ [][RuleNext]_vars


\* ------------------------------------------------------ registry promotion
\* The model's rows newest first, as activate_model_version and
\* deactivate_model_version select them.
RECURSIVE RowsNewestFirst(_, _, _)
RowsNewestFirst(table, name, upto) ==
  IF upto = 0 THEN << >>
  ELSE IF table[upto].name = name
  THEN << upto >> \o RowsNewestFirst(table, name, upto - 1)
  ELSE RowsNewestFirst(table, name, upto - 1)

\* The versions of the given rows, in their order.
VersionsOf(table, rows) == [k \in DOMAIN rows |-> table[rows[k]].version]

\* Faulty variant: every other version is reported, active or not.
RowsToDeactivateOfAnyState(table, rows, version) ==
  LET Other(i) == table[i].version # version
  IN SelectSeq(rows, Other)

\* The rows the exclusive loop of activate_model_version switches off: the
\* active rows of another version.
RowsToDeactivate(table, rows, version) ==
  LET OtherActive(i) == table[i].version # version /\ table[i].is_active
  IN SelectSeq(rows, OtherActive)

\* The ModelPromotionError of both operations for an unknown name or
\* version, "" when the target exists.
PromotionTargetError(table, rows, version) ==
  IF rows = << >> THEN "No model versions found"
  ELSE IF \A k \in DOMAIN rows : table[rows[k]].version # version
  THEN "Model version not found"
  ELSE ""

\* activate_model_version: the error message ("" when none is raised), the
\* table after it and the PromotionResult.
ActivateModelVersion(table, name, version, exclusive) ==
  LET rows == RowsNewestFirst(table, name, Len(table))
  IN IF PromotionTargetError(table, rows, version) # ""
     THEN [error |-> PromotionTargetError(table, rows, version),
           registry |-> table, result |-> None]
     ELSE
       LET target == CHOOSE i \in DOMAIN table :
                       table[i].name = name /\ table[i].version = version
           switched_off ==
             IF exclusive THEN RowsToDeactivate(table, rows, version) ELSE << >>
           off == {switched_off[k] : k \in DOMAIN switched_off}
           table1 ==
             [i \in DOMAIN table |->
                IF i = target THEN [table[i] EXCEPT !.is_active = TRUE]
                ELSE IF i \in off THEN [table[i] EXCEPT !.is_active = FALSE]
                ELSE table[i]]
           IsActive(i) == table1[i].is_active
       IN [error |-> "",
           registry |-> table1,
           result |->
             [action |-> "activate",
              name |-> name,
              version |-> version,
              changed |-> ~table[target].is_active \/ switched_off # << >>,
              deactivated_versions |-> VersionsOf(table, switched_off),
              active_versions |-> VersionsOf(table1, SelectSeq(rows, IsActive))]]

\* Faulty variant: the refusal only protects a model that has no active
\* version left at all.
RefusesLastActiveWhenNoneActive(target_is_active, active_count, allow_zero_active) ==
  target_is_active /\ active_count <= 0 /\ ~allow_zero_active

\* The guard of deactivate_model_version that raises ModelPromotionError
\* for the last active version.
RefusesLastActive(target_is_active, active_count, allow_zero_active) ==
  target_is_active /\ active_count <= 1 /\ ~allow_zero_active

\* deactivate_model_version.
DeactivateModelVersion(table, name, version, allow_zero_active) ==
  LET rows == RowsNewestFirst(table, name, Len(table))
      IsActiveBefore(i) == table[i].is_active
  IN IF PromotionTargetError(table, rows, version) # ""
     THEN [error |-> PromotionTargetError(table, rows, version),
           registry |-> table, result |-> None]
     ELSE
       LET target == CHOOSE i \in DOMAIN table :
                       table[i].name = name /\ table[i].version = version
           active_count == Len(SelectSeq(rows, IsActiveBefore))
           table1 == [table EXCEPT ![target].is_active = FALSE]
           IsActive(i) == table1[i].is_active
       IN IF RefusesLastActive(table[target].is_active, active_count,
                               allow_zero_active)
          THEN [error |-> "Refusing to deactivate the last active version",
                registry |-> table, result |-> None]
          ELSE [error |-> "",
                registry |-> table1,
                result |->
                  [action |-> "deactivate",
                   name |-> name,
                   version |-> version,
                   changed |-> table[target].is_active,
                   deactivated_versions |->
                     IF table[target].is_active THEN << version >> ELSE << >>,
                   active_versions |->
                     VersionsOf(table1, SelectSeq(rows, IsActive))]]

\* scripts/model_registry.py activate: the session is committed when no
\* ModelPromotionError was raised.
ActivateModel(name, version, exclusive) ==
  /\ \E outcome \in {ActivateModelVersion(registry, name, version, exclusive)} :
       /\ registry' = outcome.registry
       /\ response' = [call |-> "activate", name |-> name, version |-> version,
                       exclusive |-> exclusive, error |-> outcome.error,
                       result |-> outcome.result]
  /\ UNCHANGED << env, scans, clinical, fibrosis, stage3_vars >>

\* scripts/model_registry.py deactivate.
DeactivateModel(name, version, allow_zero_active) ==
  /\ \E outcome \in {DeactivateModelVersion(registry, name, version,
                                             allow_zero_active)} :
       /\ registry' = outcome.registry
       /\ response' = [call |-> "deactivate", name |-> name, version |-> version,
                       allow_zero_active |-> allow_zero_active,
                       error |-> outcome.error, result |-> outcome.result]
  /\ UNCHANGED << env, scans, clinical, fibrosis, stage3_vars >>

\* The seeded registry after two more versions of the Stage 2 model and one
\* more of the Stage 1 model were registered; new rows are active.
PromotedModels ==
  DefaultModels
  \o << RegistryRow("fibrosis-efficientnet-b3", "v2", TRUE),
        RegistryRow("clinical-stage1-gbdt", "v2", TRUE),
        RegistryRow("fibrosis-efficientnet-b3", "v3", TRUE) >>

\* The names and versions the operator of the script can type.
PromotionNames ==
  {"fibrosis-efficientnet-b3", "clinical-stage1-gbdt", "unknown-model"}
PromotionVersions == {"v1", "v2", "v3"}

RegistryInit ==
  /\ env = DefaultEnvironment
  /\ registry = PromotedModels
  /\ scans = << >>
  /\ response = NoResponse
  /\ clinical = << >>
  /\ fibrosis = << >>
  /\ Stage3AtRest

RegistryNext ==
  \/ \E name \in PromotionNames, version \in PromotionVersions,
        exclusive \in BOOLEAN :
       ActivateModel(name, version, exclusive)
  \/ \E name \in PromotionNames, version \in PromotionVersions,
        allow_zero_active \in BOOLEAN :
       DeactivateModel(name, version, allow_zero_active)

RegistrySpec == RegistryInit /\ [][RegistryNext]_vars

\* ------------------------------------------------------- repeated visits
\* One patient is assessed again and again on the same Stage 1 result and
\* the same recorded stiffness, in heuristic mode: only the history
\* component differs between the runs.

\* The stiffness on record, in thousandths of a kPa, ranges from normal to
\* cirrhotic.
HistoryInit ==
  /\ env = DefaultEnvironment
  /\ registry = DefaultModels
  /\ scans = << >>
  /\ response = NoResponse
  /\ clinical = << ClinicalRow(1) >>
  /\ fibrosis = << >>
  /\ sessions = NoSessions
  /\ runtime = NoRuntime
  /\ cfg \in {c \in Configs : c.stage3_enabled /\ c.stage3_stiffness_proxy_enabled}
  /\ artifact_on_disk = FALSE
  /\ model_cache = "unset"
  /\ \E k \in {3000 + 500 * n : n \in 0..40} :
       stiffness = << [patient_id |-> 1, entered_by |-> 1,
                       measured_kpa |-> k, source |-> "MEASURED"] >>
  /\ assessments = << >>
  /\ explanations = << >>
  /\ alerts = << >>
  /\ batch = BatchIdle
  /\ returned = [error |-> "", assessment_id |-> NoId, created |-> << >>,
                 artifact_scored |-> FALSE]
  /\ clock = 1

HistoryNext ==
  \E u \in Users : RunStage3Visit(1, u)

HistorySpec == HistoryInit /\ [][HistoryNext]_vars

\* ----------------------------------------------------------- explanations
\* First and repeated visits of one patient, ill or healthy, with or without
\* a Stage 2 result and a measured stiffness.
ExplanationInit ==
  /\ env = DefaultEnvironment
  /\ registry = DefaultModels
  /\ scans = << >>
  /\ response = NoResponse
  /\ clinical \in { << ClinicalRow(1) >>, << HealthyClinicalRow(1) >>, << >> }
  /\ fibrosis \in { << >>,
                    << FibrosisRow(1, "F4", 900000, TRUE) >>,
                    << FibrosisRow(1, "F1", 600000, FALSE) >>,
                    << FibrosisRow(1, "F0", 1000000, TRUE) >> }
  /\ sessions = NoSessions
  /\ runtime = NoRuntime
  /\ cfg = Settings(80, TRUE, TRUE)
  /\ artifact_on_disk = FALSE
  /\ model_cache = "unset"
  /\ stiffness \in { << >>,
                     << [patient_id |-> 1, entered_by |-> 1,
                         measured_kpa |-> 3000, source |-> "MEASURED"] >>,
                     << [patient_id |-> 1, entered_by |-> 1,
                         measured_kpa |-> 24500, source |-> "MEASURED"] >> }
  /\ assessments = << >>
  /\ explanations = << >>
  /\ alerts = << >>
  /\ batch = BatchIdle
  /\ returned = [error |-> "", assessment_id |-> NoId, created |-> << >>,
                 artifact_scored |-> FALSE]
  /\ clock = 1

ExplanationNext ==
  \E u \in Users : RunStage3Visit(1, u)

ExplanationSpec == ExplanationInit /\ [][ExplanationNext]_vars

\* ------------------------------------------------------ the sickest patient
\* A patient at the top of every input (FIB-4 64, APRI 20, F4 with
\* probability 1, 75 kPa) and with lesser findings, assessed again and
\* again by the heuristic and, once the artifact is deployed, by the model,
\* under every precision target.
DecompInit ==
  /\ env = DefaultEnvironment
  /\ registry = DefaultModels
  /\ scans = << >>
  /\ response = NoResponse
  /\ clinical \in { << SickestClinicalRow(1) >>, << ClinicalRow(1) >> }
  /\ fibrosis \in { << FibrosisRow(1, "F4", 1000000, TRUE) >>,
                    << FibrosisRow(1, "F3", 700000, TRUE) >>,
                    << FibrosisRow(1, "F2", 900000, FALSE) >> }
  /\ sessions = NoSessions
  /\ runtime = NoRuntime
  /\ \E target \in {80, 85, 90, 95} : cfg = Settings(target, TRUE, TRUE)
  /\ artifact_on_disk \in BOOLEAN
  /\ model_cache = "unset"
  /\ stiffness = << [patient_id |-> 1, entered_by |-> 1,
                     measured_kpa |-> 75000, source |-> "MEASURED"] >>
  /\ assessments = << >>
  /\ explanations = << >>
  /\ alerts = << >>
  /\ batch = BatchIdle
  /\ returned = [error |-> "", assessment_id |-> NoId, created |-> << >>,
                 artifact_scored |-> FALSE]
  /\ clock = 1

DecompNext ==
  \/ \E u \in Users : RunStage3Visit(1, u)
  \/ \E u \in Users, outcome \in ModelCallOutcomes :
       \E pick \in ValidPicks(alerts, 1) :
         RunStage3(1, u, NoId, NoId, NoId, outcome, pick)
  \/ InstallArtifact

DecompSpec == DecompInit /\ [][DecompNext]_vars

\* ------------------------------------------------------ estimated stiffness
\* A patient with a Stage 2 result and no stiffness on record is assessed
\* again and again without naming rows, while a Stage 1 result arrives and a
\* measurement is recorded at some moment.

\* POST /patients/{patient_id}/stiffness when the table may already hold
\* estimated rows: the records of one behaviour are capped by the measured
\* rows.
RecordStiffnessMeasurement(patient_id, user, kpa) ==
  /\ CanServe
  /\ cfg.stage3_enabled
  /\ Cardinality({i \in DOMAIN stiffness : stiffness[i].source = "MEASURED"})
       < MaxMeasurements
  /\ stiffness' = Append(stiffness,
                         [patient_id |-> patient_id, entered_by |-> user,
                          measured_kpa |-> kpa, source |-> "MEASURED"])
  /\ UNCHANGED << env, scans, registry, response, runtime, sessions, cfg,
                  artifact_on_disk, model_cache, clinical, fibrosis,
                  assessments, explanations, alerts, batch, returned, clock >>

\* Runs of one behaviour of the estimated-stiffness scenario.
MaxProxyVisits == 4

ProxyInit ==
  /\ env = DefaultEnvironment
  /\ registry = DefaultModels
  /\ scans = << >>
  /\ response = NoResponse
  /\ clinical = << >>
  /\ fibrosis \in { << FibrosisRow(1, "F4", 900000, TRUE) >>,
                    << FibrosisRow(1, "F1", 600000, FALSE) >> }
  /\ Stage3AtRest

ProxyNext ==
  \/ \E u \in Users : Len(assessments) < MaxProxyVisits /\ RunStage3Visit(1, u)
  \/ \E u \in Users, payload \in ClinicalPayloads, answer \in Stage1ModelAnswers :
       RunClinicalAssessment(1, u, payload, answer)
  \/ \E u \in Users, k \in MeasuredKpa : RecordStiffnessMeasurement(1, u, k)

ProxySpec == ProxyInit /\ [][ProxyNext]_vars

\* ------------------------------------------------------- selected inputs
\* Two patients who each have a Stage 1 result, a Stage 2 result and a
\* measured stiffness; requests name any of their rows, the other
\* patient's rows, or ids that no row has.
SelectionInit ==
  /\ env = DefaultEnvironment
  /\ registry = DefaultModels
  /\ scans = << >>
  /\ response = NoResponse
  /\ clinical = << ClinicalRow(1), ClinicalRow(2) >>
  /\ fibrosis = << FibrosisRow(1, "F4", 900000, TRUE),
                   FibrosisRow(2, "F1", 600000, FALSE) >>
  /\ sessions = NoSessions
  /\ runtime = NoRuntime
  /\ cfg \in {Settings(80, TRUE, TRUE), Settings(80, FALSE, TRUE)}
  /\ artifact_on_disk = FALSE
  /\ model_cache = "unset"
  /\ stiffness = << [patient_id |-> 1, entered_by |-> 1,
                     measured_kpa |-> 24500, source |-> "MEASURED"],
                    [patient_id |-> 2, entered_by |-> 1,
                     measured_kpa |-> 6000, source |-> "MEASURED"] >>
  /\ assessments = << >>
  /\ explanations = << >>
  /\ alerts = << >>
  /\ batch = BatchIdle
  /\ returned = [error |-> "", assessment_id |-> NoId, created |-> << >>,
                 artifact_scored |-> FALSE]
  /\ clock = 1

SelectionNext ==
  \E p \in Patients, u \in Users :
    \E cid \in SelectableIds(clinical, p), fid \in SelectableIds(fibrosis, p),
       sid \in SelectableIds(stiffness, p), pick \in ValidPicks(alerts, p) :
      RunStage3(p, u, cid, fid, sid, NotPredicted, pick)

SelectionSpec == SelectionInit /\ [][SelectionNext]_vars

\* ------------------------------------------------- artifacts loaded once
\* A process that keeps one FibrosisModelRuntime for several predictions (as
\* the runtime's integration tests do) and serves Stage 3 runs from one
\* artifact directory, while artifacts are deployed to or removed from the
\* disk.

\* predict calls on the kept runtime in one behaviour.
MaxRuntimeCalls == 3

\* FibrosisModelRuntime.__init__: RuntimeError when the temperature artifact
\* is unreadable in strict mode, else an instance with _model = None.
ConstructRuntime ==
  /\ runtime._model = "unbuilt"
  /\ ~(Stage2StrictMode(env) /\ env.stage2_temperature = "corrupt")
  /\ runtime' = [_model |-> "None", pred |-> None, calls |-> 0]
  /\ UNCHANGED << env, scans, registry, response, sessions, cfg,
                  artifact_on_disk, model_cache, clinical, fibrosis, stiffness,
                  assessments, explanations, alerts, batch, returned, clock >>

\* self._model after _lazy_load_model: an instance that has loaded, or has
\* fallen back, returns at once.
RuntimeLazyLoad(current, settings) ==
  IF current # "None" THEN current ELSE LazyLoadModel(settings)

\* runtime.predict(image_bytes) on the kept instance.
RuntimePredict(image) ==
  /\ runtime._model # "unbuilt"
  /\ runtime.calls < MaxRuntimeCalls
  /\ LET loaded == RuntimeLazyLoad(runtime._model, env)
     IN runtime' =
          IF Stage2ContractBroken(env)
          THEN [runtime EXCEPT !.pred = RuntimeError, !.calls = @ + 1]
          ELSE IF loaded = "raised"
          THEN [runtime EXCEPT !.pred = RuntimeError, !.calls = @ + 1]
          ELSE [_model |-> loaded,
                pred |-> PredictWithModel(loaded, << Stage2RegistryModelName, "v1" >>,
                                          image),
                calls |-> runtime.calls + 1]
  /\ UNCHANGED << env, scans, registry, response, sessions, cfg,
                  artifact_on_disk, model_cache, clinical, fibrosis, stiffness,
                  assessments, explanations, alerts, batch, returned, clock >>

\* The Stage 2 model file is deployed, replaced by an unreadable one, or
\* removed.
DeployStage2Artifact(state) ==
  /\ state # env.stage2_artifact
  /\ env' = [env EXCEPT !.stage2_artifact = state]
  /\ UNCHANGED << scans, registry, response, clinical, fibrosis, stage3_vars >>

CacheInit ==
  /\ env \in { Environment(TRUE, TRUE, TRUE, "warn", "missing", "missing", "missing"),
               Environment(FALSE, TRUE, FALSE, "warn", "missing", "corrupt", "ok"),
               Environment(FALSE, TRUE, TRUE, "warn", "missing", "missing", "ok") }
  /\ registry = DefaultModels
  /\ scans = << >>
  /\ response = NoResponse
  /\ clinical = << ClinicalRow(1) >>
  /\ fibrosis = << >>
  /\ Stage3AtRest

CacheNext ==
  \/ ConstructRuntime
  \/ \E i \in DOMAIN Images : RuntimePredict(Images[i])
  \/ \E state \in ArtifactStates : DeployStage2Artifact(state)
  \/ \E u \in Users, outcome \in ModelCallOutcomes :
       \E pick \in ValidPicks(alerts, 1) :
         RunStage3(1, u, NoId, NoId, NoId, outcome, pick)
  \/ InstallArtifact

CacheSpec == CacheInit /\ [][CacheNext]_vars

\* --------------------------------------------- requests served side by side
\* Two POST /assessments/stage3 requests are served by two workers, each in
\* its own database session.  A session reads what is committed and what it
\* wrote itself; what it flushed becomes visible to the other session when
\* it commits (read committed).  Row ids are assigned in commit order here.

\* Stage 3 runs that have started, committed or not.
MaxConcurrentRuns == 3

\* The alert rows a session's run changed in place, as [id, row].
UpdatedAlerts(seen, after) ==
  {[id |-> a, row |-> after[a]] : a \in {x \in DOMAIN seen : after[x] # seen[x]}}

\* run_stage3 up to, not including, db.commit(): run_stage3_assessment on
\* what the session can see, its rows flushed and not yet committed.
SessionRun(s, patient_id, user, outcome, pick) ==
  /\ sessions[s].pc = "idle"
  /\ cfg.stage3_enabled
  /\ Len(assessments) + Cardinality({x \in SessionIds : sessions[x].pc = "flushed"})
       < MaxConcurrentRuns
  /\ \E result \in {RunStage3Assessment(cfg, patient_id, user, NoId, NoId,
                                         NoId, outcome, pick)} :
       /\ result.error = ""
       \* a row another session updated and has not committed is locked: the
       \* UPDATE waits for that commit
       /\ \A u \in UpdatedAlerts(alerts, result.alerts) :
            \A o \in SessionIds \ {s} : \A v \in sessions[o].updated : u.id # v.id
       /\ sessions' =
            [sessions EXCEPT ![s] =
               [pc |-> "flushed",
                patient_id |-> patient_id,
                seen_alerts |-> alerts,
                stiffness_rows |->
                  SubSeq(result.stiffness, Len(stiffness) + 1, Len(result.stiffness)),
                assessment |-> result.assessments[result.assessment_id],
                explanation |-> result.explanations[Len(result.explanations)],
                inserted |->
                  SubSeq(result.alerts, Len(alerts) + 1, Len(result.alerts)),
                updated |-> UpdatedAlerts(alerts, result.alerts),
                artifact_scored |-> result.artifact_scored]]
       /\ model_cache' = result.model_cache
  /\ UNCHANGED << env, scans, registry, response, runtime, cfg, artifact_on_disk,
                  clinical, fibrosis, stiffness, assessments, explanations,
                  alerts, batch, returned, clock >>

\* db.commit() of run_stage3: the session's rows join the committed tables.
SessionCommit(s) ==
  /\ sessions[s].pc = "flushed"
  /\ LET mine == sessions[s]
         assessment_id == Len(assessments) + 1
         stiffness1 == stiffness \o mine.stiffness_rows
         assessment ==
           IF mine.stiffness_rows = << >> THEN mine.assessment
           ELSE [mine.assessment EXCEPT !.stiffness_measurement_id = Len(stiffness1)]
         points == mine.explanation.trend_points_json
         explanation ==
           [mine.explanation EXCEPT
              !.stage3_assessment_id = assessment_id,
              !.trend_points_json =
                [idx \in DOMAIN points |->
                   IF idx = Len(points)
                   THEN [points[idx] EXCEPT !.assessment_id = assessment_id]
                   ELSE points[idx]]]
         Written(a) == CHOOSE u \in mine.updated : u.id = a
         alerts1 ==
           [a \in DOMAIN alerts |->
              IF \E u \in mine.updated : u.id = a
              THEN [alerts[a] EXCEPT
                      !.score = Written(a).row.score,
                      !.threshold = Written(a).row.threshold,
                      !.severity = Written(a).row.severity,
                      !.stage3_assessment_id = assessment_id]
              ELSE alerts[a]]
           \o [k \in DOMAIN mine.inserted |->
                 [mine.inserted[k] EXCEPT !.stage3_assessment_id = assessment_id,
                                          !.created_at = assessment_id]]
     IN /\ stiffness' = stiffness1
        /\ assessments' = Append(assessments, assessment)
        /\ explanations' = Append(explanations, explanation)
        /\ alerts' = alerts1
        /\ returned' = [error |-> "",
                        assessment_id |-> assessment_id,
                        created |-> [k \in DOMAIN mine.inserted |-> Len(alerts) + k],
                        artifact_scored |-> mine.artifact_scored]
  /\ sessions' = [sessions EXCEPT ![s] = IdleSession]
  /\ UNCHANGED << env, scans, registry, response, runtime, cfg, artifact_on_disk,
                  model_cache, clinical, fibrosis, batch, clock >>

\* The requests are about two patients.
ConcurrentInit ==
  /\ Init
  /\ cfg.stage3_enabled
  /\ cfg.stage3_stiffness_proxy_enabled
  /\ clinical = << ClinicalRow(1) >>

ConcurrentNext ==
  \/ \E s \in SessionIds, p \in {1, 2}, u \in Users,
        outcome \in ModelCallOutcomes :
       \E pick \in ValidPicks(alerts, p) : SessionRun(s, p, u, outcome, pick)
  \/ \E s \in SessionIds : SessionCommit(s)

ConcurrentSpec == ConcurrentInit /\ [][ConcurrentNext]_vars

\* ---------------------------------------------------------------- claims
\* Vocabulary of the claims, stated on the rows themselves.
OpenOfType(rows, patient_id, alert_type) ==
  {a \in DOMAIN rows : /\ rows[a].patient_id = patient_id
                       /\ rows[a].alert_type = alert_type
                       /\ rows[a].status = "open"}

InsertedAlerts == (Len(alerts) + 1)..Len(alerts')

\* A step in which run_stage3_assessment stored a new assessment.
IsRunStep == Len(assessments') = Len(assessments) + 1

StatusRank(status) ==
  CASE status = "open" -> 0
    [] status = "ack" -> 1
    [] status = "closed" -> 2

\* C1: in every reachable state each (patient, alert_type) pair has at most
\* one RiskAlert with status 'open'.
C1_AtMostOneOpenAlert ==
  \A p \in Patients, t \in AlertTypes :
    Cardinality(OpenOfType(alerts, p, t)) <= 1

\* C2: a run that produces a candidate of type T for a patient who already
\* has an open alert of type T inserts no row of that type; it overwrites
\* the score, threshold, severity and assessment reference of that alert,
\* leaves every other field of it as it was, and does not return it among
\* the created alerts.
C2_UpdatesOpenAlertInPlace ==
  [][IsRunStep =>
       LET k == Len(assessments')
           run == assessments'[k]
           p == run.patient_id
           cands == AlertCandidates(UpsertThreshold(cfg), run)
       IN \A i \in DOMAIN cands :
            OpenOfType(alerts, p, cands[i].alert_type) # {} =>
              /\ \A a \in InsertedAlerts :
                   ~(alerts'[a].patient_id = p
                     /\ alerts'[a].alert_type = cands[i].alert_type)
              /\ \E e \in OpenOfType(alerts, p, cands[i].alert_type) :
                   /\ alerts'[e] =
                        [alerts[e] EXCEPT
                           !.score = cands[i].score,
                           !.threshold = run.feature_snapshot_json.alert_score_threshold,
                           !.severity = cands[i].severity,
                           !.stage3_assessment_id = k]
                   /\ \A j \in DOMAIN returned'.created :
                        returned'.created[j] # e
    ]_vars

\* A run has just updated an alert that an earlier run had created.
C2_Witness ==
  /\ returned.error = ""
  /\ returned.assessment_id # NoId
  /\ \E a \in DOMAIN alerts :
       /\ alerts[a].stage3_assessment_id = returned.assessment_id
       /\ alerts[a].created_at < returned.assessment_id
       /\ alerts[a].status = "open"
       /\ \A j \in DOMAIN returned.created : returned.created[j] # a

\* C3: a run that qualifies for type T while the patient has no open alert
\* of type T inserts exactly one new open alert of type T, and leaves every
\* ack or closed alert as it was.
C3_InsertsWhenNoneOpen ==
  [][IsRunStep =>
       LET k == Len(assessments')
           run == assessments'[k]
           p == run.patient_id
           cands == AlertCandidates(UpsertThreshold(cfg), run)
       IN /\ \A i \in DOMAIN cands :
               OpenOfType(alerts, p, cands[i].alert_type) = {} =>
                 /\ Cardinality({a \in InsertedAlerts :
                                   /\ alerts'[a].patient_id = p
                                   /\ alerts'[a].alert_type = cands[i].alert_type})
                      = 1
                 /\ \A a \in InsertedAlerts :
                      alerts'[a].alert_type = cands[i].alert_type =>
                        /\ alerts'[a].status = "open"
                        /\ alerts'[a].stage3_assessment_id = k
          /\ \A a \in DOMAIN alerts :
               alerts[a].status \in {"ack", "closed"} => alerts'[a] = alerts[a]
    ]_vars

\* A run has just inserted a new open alert next to an earlier alert of the
\* same patient and type that had been closed.
C3_Witness ==
  /\ returned.error = ""
  /\ \E a, b \in DOMAIN alerts :
       /\ a < b
       /\ alerts[a].patient_id = alerts[b].patient_id
       /\ alerts[a].alert_type = alerts[b].alert_type
       /\ alerts[a].status = "closed"
       /\ alerts[b].status = "open"
       /\ alerts[b].created_at = returned.assessment_id
       /\ \E j \in DOMAIN returned.created : returned.created[j] = b

\* C4: the status of a RiskAlert only moves forward along
\* open -> ack -> closed.
C4_StatusOnlyMovesForward ==
  [][\A a \in DOMAIN alerts :
       StatusRank(alerts'[a].status) >= StatusRank(alerts[a].status)]_vars

\* C5: resolved_at is non-null if and only if the alert's status is
\* 'closed'.
C5_ResolvedIffClosed ==
  \A a \in DOMAIN alerts :
    (alerts[a].resolved_at # NoId) <=> (alerts[a].status = "closed")

\* C6: with t = 0.78 / 0.70 / 0.62 for a PPV target >= 0.90 / >= 0.85 /
\* below, a run creates or updates an ADVANCED_FIBROSIS_RISK alert exactly
\* when composite >= t and the tier is HIGH or CRITICAL (severity critical
\* iff the tier is CRITICAL), a DECOMPENSATION_RISK alert exactly when
\* decomp >= t + 0.05 (severity critical iff decomp >= 0.8), and touches no
\* other alert.
C6_AlertRule ==
  [][IsRunStep =>
       LET k == Len(assessments')
           run == assessments'[k]
           p == run.patient_id
           ppv == cfg.stage3_alert_ppv_target
           t == IF ppv >= 90 THEN 780000 ELSE IF ppv >= 85 THEN 700000 ELSE 620000
           touched(alert_type) ==
             {a \in DOMAIN alerts' : /\ alerts'[a].stage3_assessment_id = k
                                     /\ alerts'[a].alert_type = alert_type}
           advanced == /\ run.composite_risk_score >= t
                       /\ run.risk_tier \in {"HIGH", "CRITICAL"}
           decomp == run.decomp_risk_12m >= t + 50000
       IN /\ advanced <=> touched("ADVANCED_FIBROSIS_RISK") # {}
          /\ decomp <=> touched("DECOMPENSATION_RISK") # {}
          /\ \A a \in touched("ADVANCED_FIBROSIS_RISK") :
               /\ alerts'[a].patient_id = p
               /\ alerts'[a].score = run.composite_risk_score
               /\ alerts'[a].severity =
                    (IF run.risk_tier = "CRITICAL" THEN "critical" ELSE "high")
          /\ \A a \in touched("DECOMPENSATION_RISK") :
               /\ alerts'[a].patient_id = p
               /\ alerts'[a].score = run.decomp_risk_12m
               /\ alerts'[a].severity =
                    (IF run.decomp_risk_12m >= 800000 THEN "critical" ELSE "high")
          /\ \A a \in DOMAIN alerts' :
               alerts'[a].stage3_assessment_id # k =>
                 a \in DOMAIN alerts /\ alerts'[a] = alerts[a]
    ]_vars

\* A run has raised an advanced-fibrosis alert and no decompensation alert:
\* its decompensation risk lies between t and t + 0.05.
C6_Witness ==
  /\ returned.error = ""
  /\ returned.assessment_id # NoId
  /\ LET run == assessments[returned.assessment_id]
     IN /\ run.decomp_risk_12m >= run.feature_snapshot_json.alert_score_threshold
        /\ \E a \in DOMAIN alerts :
             /\ alerts[a].stage3_assessment_id = returned.assessment_id
             /\ alerts[a].alert_type = "ADVANCED_FIBROSIS_RISK"
        /\ \A a \in DOMAIN alerts :
             alerts[a].stage3_assessment_id = returned.assessment_id =>
               alerts[a].alert_type # "DECOMPENSATION_RISK"

\* C7: every alert carries the threshold recorded as alert_score_threshold
\* in the feature snapshot of the assessment it references.
C7_ThresholdMatchesSnapshot ==
  \A a \in DOMAIN alerts :
    alerts[a].stage3_assessment_id # NoId =>
      alerts[a].threshold =
        assessments[alerts[a].stage3_assessment_id]
          .feature_snapshot_json.alert_score_threshold

\* An alert created by one run has been updated by a later one under a
\* PPV target that does not select the lowest threshold.
C7_Witness ==
  /\ cfg.stage3_alert_ppv_target >= 85
  /\ \E a \in DOMAIN alerts :
       /\ alerts[a].stage3_assessment_id # NoId
       /\ alerts[a].created_at < alerts[a].stage3_assessment_id

\* C8: run_stage3_assessment raises Stage3Error when the patient has
\* neither a clinical assessment nor a fibrosis prediction, and when no
\* stiffness measurement resolves while the proxy fallback is disabled; the
\* failed call creates or changes no StiffnessMeasurement,
\* Stage3Assessment, Stage3Explanation or RiskAlert row.
C8_FailedRunChangesNothing ==
  \A p \in Patients, u \in Users :
  \A cid \in SelectableIds(clinical, p), fid \in SelectableIds(fibrosis, p),
     sid \in SelectableIds(stiffness, p) :
    LET r == RunStage3Assessment(cfg, p, u, cid, fid, sid, NotPredicted,
                                 [t \in AlertTypes |-> NoId])
        no_stage_input ==
          /\ \A i \in DOMAIN clinical : clinical[i].patient_id # p
          /\ \A i \in DOMAIN fibrosis : fibrosis[i].patient_id # p
        no_stiffness ==
          IF sid = NoId
          THEN \A i \in DOMAIN stiffness : stiffness[i].patient_id # p
          ELSE ~(sid \in DOMAIN stiffness /\ stiffness[sid].patient_id = p)
    IN (no_stage_input \/ (no_stiffness /\ ~cfg.stage3_stiffness_proxy_enabled)) =>
         /\ r.error # ""
         /\ r.stiffness = stiffness
         /\ r.assessments = assessments
         /\ r.explanations = explanations
         /\ r.alerts = alerts
         /\ r.created = << >>

\* A batch has met both failures: patient 1 has a clinical assessment but
\* no stiffness measurement while the proxy is disabled, patient 2 has no
\* Stage 1 or Stage 2 result at all.
C8_Witness ==
  /\ ~cfg.stage3_stiffness_proxy_enabled
  /\ \E i \in DOMAIN clinical : clinical[i].patient_id = 1
  /\ \A i \in DOMAIN clinical : clinical[i].patient_id # 2
  /\ \A i \in DOMAIN fibrosis : fibrosis[i].patient_id # 2
  /\ batch.pc = "done"
  /\ batch.failures = << 1, 2 >>
  /\ returned.error = "Stage 3 requires at least one prior Stage 1 or Stage 2 assessment"

\* C9: a monitoring batch attempts every patient exactly once in creation
\* order, a Stage3Error for one patient does not stop the patients after
\* it, processed + len(failures) equals the number of patients, and
\* alerts_created equals the number of RiskAlert rows inserted during the
\* batch.
C9_BatchSummary ==
  (batch.pc = "done" /\ batch.status = "OK") =>
    /\ batch.attempted = [i \in 1..NumPatients |-> i]
    /\ batch.processed + Len(batch.failures) = NumPatients
    /\ batch.alerts_created = Len(alerts) - batch.alerts_before

\* A batch has finished in which the first patient failed and a later one
\* was processed.
C9_Witness ==
  /\ batch.pc = "done"
  /\ batch.status = "OK"
  /\ batch.failures # << >>
  /\ batch.failures[1] = 1
  /\ batch.processed >= 1

\* C10: composite_risk_score, progression_risk_12m and decomp_risk_12m of
\* every stored assessment lie within [0, 0.99].
C10_ScoresWithinRange ==
  \A k \in DOMAIN assessments :
    /\ assessments[k].composite_risk_score \in 0..990000
    /\ assessments[k].progression_risk_12m \in 0..990000
    /\ assessments[k].decomp_risk_12m \in 0..990000

\* A version string carries the fallback suffix.
EndsWithHeuristic(model_version) ==
  model_version[Len(model_version)] = "::heuristic"

\* C11: every stored Stage3Assessment carries the tier of its own composite
\* score: CRITICAL from 0.82, HIGH from 0.62, MODERATE from 0.35, LOW below,
\* whether the heuristic or the learned model produced the score.
C11_TierMatchesComposite ==
  \A k \in DOMAIN assessments :
    LET score == assessments[k].composite_risk_score
        tier == assessments[k].risk_tier
    IN /\ (tier = "CRITICAL") <=> (score >= 820000)
       /\ (tier = "HIGH") <=> (score >= 620000 /\ score < 820000)
       /\ (tier = "MODERATE") <=> (score >= 350000 /\ score < 620000)
       /\ (tier = "LOW") <=> (score < 350000)

\* A learned assessment in the CRITICAL band below 0.90 and a heuristic
\* assessment are both stored.
C11_Witness ==
  /\ \E k \in DOMAIN assessments :
       /\ ~EndsWithHeuristic(assessments[k].model_version)
       /\ assessments[k].composite_risk_score = 850000
       /\ assessments[k].risk_tier = "CRITICAL"
  /\ \E k \in DOMAIN assessments :
       EndsWithHeuristic(assessments[k].model_version)

\* C18: map_risk_tier yields HIGH exactly when FIB-4 > 2.67 or APRI >= 1.0;
\* otherwise MODERATE exactly when FIB-4 is in [1.3, 2.67] or APRI is in
\* [0.5, 1.0); otherwise LOW.
C18_RiskTierBands ==
  response.call = "rule_engine" =>
    LET high == response.fib4 > 26700 \/ response.apri >= 10000
        moderate ==
          \/ response.fib4 >= 13000 /\ response.fib4 <= 26700
          \/ response.apri >= 5000 /\ response.apri < 10000
    IN /\ (response.risk_tier = "HIGH") <=> high
       /\ (response.risk_tier = "MODERATE") <=> (~high /\ moderate)
       /\ (response.risk_tier = "LOW") <=> (~high /\ ~moderate)

\* FIB-4 of exactly 2.67 with a low APRI has been mapped, to MODERATE.
C18_Witness ==
  /\ response.call = "rule_engine"
  /\ response.fib4 = 26700
  /\ response.apri = 4999
  /\ response.risk_tier = "MODERATE"

\* C19: the rule probability is the tier's base (LOW 0.20, MODERATE 0.55,
\* HIGH 0.82) plus 0.05 exactly when BMI >= 30 and type2dm, capped at 0.95;
\* HIGH with BMI 31 and diabetes gives 0.87; every value is in [0, 0.95].
C19_RuleProbability ==
  response.call = "rule_engine" =>
    LET base == CASE response.risk_tier = "LOW" -> 2000
                  [] response.risk_tier = "MODERATE" -> 5500
                  [] response.risk_tier = "HIGH" -> 8200
        bonus == IF response.bmi >= 300 /\ response.type2dm THEN 500 ELSE 0
    IN /\ response.probability = Min(base + bonus, 9500)
       /\ response.probability \in 0..9500
       /\ (response.risk_tier = "HIGH" /\ response.bmi = 310 /\ response.type2dm)
            => response.probability = 8700

\* A MODERATE tier at a BMI of exactly 30 with diabetes got the bonus.
C19_Witness ==
  /\ response.call = "rule_engine"
  /\ response.risk_tier = "MODERATE"
  /\ response.bmi = 300
  /\ response.type2dm
  /\ response.probability = 6000

\* C17: with the Stage 1 override enabled, when predict_stage1_ml signals
\* that the model is unavailable the request fails and stores no
\* ClinicalAssessment row in strict mode (model required and environment not
\* development), and otherwise stores the rule engine's tier, probability
\* and model version; when the override succeeds the row keeps the rule
\* engine's FIB-4 and APRI with the model's tier, probability and version.
C17_Stage1Override ==
  [][(response'.call = "clinical" /\ env.stage1_ml_enabled
      /\ (response' # response \/ clinical' # clinical)) =>
       LET r == response'
           strict == env.stage1_require_model_non_dev /\ ~env.is_local_dev
           stored == Len(clinical') = Len(clinical) + 1
           row == clinical'[Len(clinical')]
       IN /\ (r.ml_signal = "unavailable" /\ strict) =>
               (r.status_code # 200 /\ clinical' = clinical)
          /\ (r.ml_signal = "unavailable" /\ ~strict) =>
               /\ r.status_code = 200
               /\ stored
               /\ row.fib4 = r.rule_result.fib4
               /\ row.apri = r.rule_result.apri
               /\ row.risk_tier = r.rule_result.risk_tier
               /\ row.probability = r.rule_result.probability
               /\ row.model_version = r.rule_result.model_version
               /\ row.model_version = << "clinical-rule-engine", "v1" >>
          /\ (r.ml_signal = "prediction") =>
               /\ r.status_code = 200
               /\ stored
               /\ row.fib4 = r.rule_result.fib4
               /\ row.apri = r.rule_result.apri
               /\ row.risk_tier = r.ml_result.risk_tier
               /\ row.probability = r.ml_result.probability
               /\ row.model_version = r.ml_result.model_version]_vars

\* In development, with the model required but its artifacts missing, a
\* request was answered from the rule engine.
C17_Witness ==
  /\ response.call = "clinical"
  /\ env.is_local_dev
  /\ env.stage1_require_model_non_dev
  /\ response.ml_signal = "unavailable"
  /\ response.status_code = 200
  /\ Len(clinical) = 1
  /\ clinical[1].model_version = << "clinical-rule-engine", "v1" >>

\* What FibrosisModelRuntime handed back is a prediction, not an error.
IsPrediction(pred) == "inference_mode" \in DOMAIN pred

\* The fibrosis endpoint got as far as calling the runtime.
RuntimeCalled == response.call = "fibrosis" /\ response.pred # None

\* C12: FibrosisModelRuntime.predict returns a heuristic result only when
\* strict mode is off (strict = environment not development and
\* stage2_require_model_non_dev): in strict mode a missing or unloadable
\* model artifact makes predict fail and never yields a prediction; outside
\* strict mode it yields a result with inference_mode = heuristic.
C12_HeuristicOnlyOutsideStrictMode ==
  RuntimeCalled =>
    LET strict == ~env.is_local_dev /\ env.stage2_require_model_non_dev
        unusable == env.stage2_artifact \in {"missing", "corrupt"}
        pred == response.pred
    IN /\ (IsPrediction(pred) /\ pred.inference_mode = "heuristic") => ~strict
       /\ (strict /\ unusable) => ~IsPrediction(pred)
       /\ (~strict /\ unusable) =>
            (IsPrediction(pred) /\ pred.inference_mode = "heuristic")

\* In strict mode the artifact was on disk but did not load, and the
\* request was refused.
C12_Witness ==
  /\ RuntimeCalled
  /\ ~env.is_local_dev
  /\ env.stage2_require_model_non_dev
  /\ env.stage2_artifact = "corrupt"
  /\ ~IsPrediction(response.pred)
  /\ response.status_code = 503

\* C13: for every Stage 2 prediction, confidence_flag is LOW_CONFIDENCE
\* whenever inference_mode is heuristic, whatever the probability; in ml
\* mode it is LOW_CONFIDENCE iff the top-1 probability is below 0.60 and
\* NORMAL otherwise; escalation_flag is SEVERE_STAGE_REVIEW iff the top-1
\* stage is F3 or F4 and its probability is at least 0.65, else NONE.
C13_PredictionFlags ==
  (RuntimeCalled /\ IsPrediction(response.pred)) =>
    LET pred == response.pred
        severe ==
          pred.top1.stage \in {"F3", "F4"} /\ pred.top1.probability >= 650000
    IN /\ pred.inference_mode = "heuristic" =>
            pred.confidence_flag = "LOW_CONFIDENCE"
       /\ pred.inference_mode = "ml" =>
            /\ (pred.confidence_flag = "LOW_CONFIDENCE")
                 <=> (pred.top1.probability < 600000)
            /\ (pred.confidence_flag = "NORMAL")
                 <=> (pred.top1.probability >= 600000)
       /\ (pred.escalation_flag = "SEVERE_STAGE_REVIEW") <=> severe
       /\ (pred.escalation_flag = "NONE") <=> ~severe

\* The heuristic scorer gave its first stage a probability of 0.70 and the
\* result was flagged LOW_CONFIDENCE.
C13_Witness ==
  /\ RuntimeCalled
  /\ IsPrediction(response.pred)
  /\ response.pred.inference_mode = "heuristic"
  /\ response.pred.top1.probability = 700000
  /\ response.pred.confidence_flag = "LOW_CONFIDENCE"

\* C16: in the fibrosis assessment flow an image that fails the quality
\* check (is_valid false, that is at least one reason code) is rejected under
\* the 'strict' gate: the scan is marked QUALITY_REJECTED and no
\* FibrosisPrediction is stored; under the 'warn' gate the prediction is
\* stored with quality_metrics.is_valid = false and its reason codes and the
\* scan is marked PROCESSED_WITH_WARNINGS; a valid image is marked
\* PROCESSED.
C16_QualityGate ==
  [][(response'.call = "fibrosis" /\ response'.quality # None) =>
       LET quality == response'.quality
           id == response'.scan_asset_id
           gate == env.resolved_stage2_quality_gate
           predicted == IsPrediction(response'.pred)
           stored == Len(fibrosis') = Len(fibrosis) + 1
           row == fibrosis'[Len(fibrosis')]
       IN /\ quality.is_valid <=> (quality.reason_codes = << >>)
          /\ (~quality.is_valid /\ gate = "strict") =>
               /\ scans'[id].status = "QUALITY_REJECTED"
               /\ fibrosis' = fibrosis
               /\ response'.status_code = 422
          /\ (~quality.is_valid /\ gate = "warn" /\ predicted) =>
               /\ stored
               /\ row.scan_asset_id = id
               /\ row.quality_metrics.is_valid = FALSE
               /\ row.quality_metrics.reason_codes = quality.reason_codes
               /\ row.quality_metrics.reason_codes # << >>
               /\ scans'[id].status = "PROCESSED_WITH_WARNINGS"
          /\ (quality.is_valid /\ predicted) =>
               /\ stored
               /\ row.quality_metrics.is_valid
               /\ scans'[id].status = "PROCESSED"
          /\ stored => predicted]_vars

\* Under the 'warn' gate the prediction of a too dark image is stored and
\* its scan is marked PROCESSED_WITH_WARNINGS.
C16_Witness ==
  /\ response.call = "fibrosis"
  /\ response.status_code = 200
  /\ env.resolved_stage2_quality_gate = "warn"
  /\ Len(fibrosis) >= 1
  /\ fibrosis[Len(fibrosis)].quality_metrics.is_valid = FALSE
  /\ fibrosis[Len(fibrosis)].quality_metrics.reason_codes = << "TOO_DARK" >>
  /\ scans[response.scan_asset_id].status = "PROCESSED_WITH_WARNINGS"

\* C14: a result's model version ends with '::heuristic' exactly when a
\* fallback scorer produced it: for Stage 2 iff inference_mode = heuristic,
\* for Stage 3 iff the learned fusion artifact did not supply the scores
\* (missing, unloadable or failing at prediction time).
C14_HeuristicSuffix ==
  /\ (RuntimeCalled /\ IsPrediction(response.pred)) =>
       /\ EndsWithHeuristic(response.pred.model_version)
            <=> (response.pred.inference_mode = "heuristic")
       /\ response.status_code = 200 =>
            fibrosis[Len(fibrosis)].model_version = response.pred.model_version
  /\ (returned.error = "" /\ returned.assessment_id # NoId) =>
       LET run == assessments[returned.assessment_id]
       IN /\ EndsWithHeuristic(run.model_version) <=> ~returned.artifact_scored
          /\ model_cache # "model" => EndsWithHeuristic(run.model_version)
          /\ \A e \in DOMAIN explanations :
               explanations[e].stage3_assessment_id = returned.assessment_id =>
                 explanations[e].global_reference_version = run.model_version

\* A heuristic Stage 2 prediction is stored, and a Stage 3 run whose loaded
\* fusion model failed at prediction time stored a heuristic assessment.
C14_Witness ==
  /\ RuntimeCalled
  /\ IsPrediction(response.pred)
  /\ response.pred.inference_mode = "heuristic"
  /\ EndsWithHeuristic(fibrosis[Len(fibrosis)].model_version)
  /\ returned.error = ""
  /\ returned.assessment_id # NoId
  /\ model_cache = "model"
  /\ ~returned.artifact_scored
  /\ EndsWithHeuristic(assessments[returned.assessment_id].model_version)

\* C15: the trend points stored by a Stage 3 run contain only that
\* patient's assessments, at most the 12 most recent ones, ordered oldest
\* to newest with visit_index running 1..n without gaps, and the last point
\* is the assessment created by that run.
C15_TrendPoints ==
  \A e \in DOMAIN explanations :
    LET run == explanations[e].stage3_assessment_id
        patient == assessments[run].patient_id
        points == explanations[e].trend_points_json
        own == {x \in DOMAIN assessments :
                  assessments[x].patient_id = patient /\ x <= run}
        shown == {points[i].assessment_id : i \in DOMAIN points}
    IN /\ Len(points) >= 1
       /\ Len(points) <= 12
       /\ Len(points) = Cardinality(shown)
       /\ shown \subseteq own
       /\ Cardinality(own) <= 12 => shown = own
       /\ \A x \in own \ shown : \A y \in shown : x < y
       /\ Cardinality(own) > 12 => Len(points) = 12
       /\ \A i \in DOMAIN points : points[i].visit_index = i
       /\ \A i, j \in DOMAIN points :
            i < j => points[i].assessment_id < points[j].assessment_id
       /\ points[Len(points)].assessment_id = run

\* A patient's thirteenth run stored twelve points: the first visit is no
\* longer shown, and the other patient is not in the table at all.
C15_Witness ==
  \E e \in DOMAIN explanations :
    /\ explanations[e].stage3_assessment_id = 13
    /\ Len(explanations[e].trend_points_json) = 12
    /\ explanations[e].trend_points_json[1].assessment_id = 2
    /\ explanations[e].trend_points_json[1].visit_index = 1
    /\ \A x \in DOMAIN assessments : assessments[x].patient_id = 1

\* C20: activate_model_version(name, version, exclusive=True) leaves the
\* target the only active version of that name and reports exactly the
\* versions it deactivated; with exclusive=False it activates the target
\* and changes no other version's flag; versions of other names are never
\* changed; an unknown name or version raises ModelPromotionError and
\* changes nothing.
C20_ActivateModelVersion ==
  [][(response'.call = "activate"
      /\ (response' # response \/ registry' # registry)) =>
       LET call == response'
           same_name == {i \in DOMAIN registry : registry[i].name = call.name}
           targets == {i \in same_name : registry[i].version = call.version}
           switched_off ==
             {registry[i].version :
                i \in {x \in same_name :
                         registry[x].is_active /\ ~registry'[x].is_active}}
       IN /\ DOMAIN registry' = DOMAIN registry
          /\ \A i \in DOMAIN registry :
               /\ registry'[i].name = registry[i].name
               /\ registry'[i].version = registry[i].version
               /\ i \notin same_name => registry'[i] = registry[i]
          /\ targets = {} => (call.error # "" /\ registry' = registry)
          /\ targets # {} =>
               /\ call.error = ""
               /\ \A i \in targets : registry'[i].is_active
               /\ call.exclusive =>
                    /\ \A i \in same_name : registry'[i].is_active <=> i \in targets
                    /\ {call.result.deactivated_versions[k] :
                          k \in DOMAIN call.result.deactivated_versions}
                         = switched_off
                    /\ Len(call.result.deactivated_versions)
                         = Cardinality(switched_off)
               /\ ~call.exclusive =>
                    /\ \A i \in same_name \ targets : registry'[i] = registry[i]
                    /\ call.result.deactivated_versions = << >>]_vars

\* An exclusive activation of v2 found v3 active and v1 already inactive:
\* it reports v3 alone, and v2 is the only active version of its name.
C20_Witness ==
  /\ response.call = "activate"
  /\ response.name = "fibrosis-efficientnet-b3"
  /\ response.version = "v2"
  /\ response.exclusive
  /\ response.error = ""
  /\ response.result.deactivated_versions = << "v3" >>
  /\ \A i \in DOMAIN registry :
       registry[i].name = "fibrosis-efficientnet-b3" =>
         (registry[i].is_active <=> registry[i].version = "v2")

\* The active rows of a model name in a registry table.
ActiveRowsOf(table, name) ==
  {i \in DOMAIN table : table[i].name = name /\ table[i].is_active}

\* C21: deactivating the only active version of a model name without
\* allow_zero_active raises ModelPromotionError and leaves the registry as it
\* was; and no activation, nor any deactivation without allow_zero_active,
\* takes a model name that has an active version to zero active versions.
C21_LastActiveIsKept ==
  [][ /\ ( /\ response'.call = "deactivate"
           /\ ~response'.allow_zero_active
           /\ \E i \in DOMAIN registry :
                /\ registry[i].version = response'.version
                /\ ActiveRowsOf(registry, response'.name) = {i} )
         => /\ response'.error = "Refusing to deactivate the last active version"
            /\ response'.result = None
            /\ registry' = registry
      /\ ( \/ response'.call = "activate"
           \/ /\ response'.call = "deactivate"
              /\ ~response'.allow_zero_active )
         => \A name \in PromotionNames :
              ActiveRowsOf(registry, name) # {}
                => ActiveRowsOf(registry', name) # {}
    ]_vars

\* The operator tried to switch off the only active version left of the
\* Stage 2 model, without allow_zero_active, and was refused.
C21_Witness ==
  /\ response.call = "deactivate"
  /\ ~response.allow_zero_active
  /\ response.name = "fibrosis-efficientnet-b3"
  /\ response.error = "Refusing to deactivate the last active version"
  /\ Cardinality(ActiveRowsOf(registry, "fibrosis-efficientnet-b3")) = 1

\* C22: in the trend points a run stores, a point's alert_state is "open"
\* exactly when, after the run has created and updated its alerts, the
\* patient has an open alert that references the point's assessment, and
\* "none" otherwise.
C22_TrendAlertStateAfterUpsert ==
  [][IsRunStep =>
       LET k == Len(assessments')
           p == assessments'[k].patient_id
           points == explanations'[Len(explanations')].trend_points_json
       IN \A idx \in DOMAIN points :
            points[idx].alert_state =
              IF \E a \in DOMAIN alerts' :
                   /\ alerts'[a].patient_id = p
                   /\ alerts'[a].status = "open"
                   /\ alerts'[a].stage3_assessment_id = points[idx].assessment_id
              THEN "open"
              ELSE "none"
    ]_vars

\* Session s commits in this step.
Commits(s) == sessions[s].pc = "flushed" /\ sessions'[s].pc = "idle"

\* No (patient, alert_type) has two open alerts in the given table.
DedupedAlerts(rows) ==
  \A p \in Patients, t \in AlertTypes : Cardinality(OpenOfType(rows, p, t)) <= 1

\* C23 as stated: Stage 3 runs that interleave in separate database
\* sessions still leave at most one open alert per (patient, alert_type):
\* no commit of a run takes the alerts from deduplicated to duplicated.
C23_InterleavedRunsStayDeduped ==
  [][\A s \in SessionIds :
       Commits(s) /\ DedupedAlerts(alerts) => DedupedAlerts(alerts')
    ]_vars

\* C23, amended: a run keeps at most one open alert per (patient,
\* alert_type) when no other session committed alerts between the run's
\* lookup and its own commit, as when runs follow one another.
C23_SerialRunsStayDeduped ==
  [][\A s \in SessionIds :
       /\ Commits(s)
       /\ sessions[s].seen_alerts = alerts
       /\ DedupedAlerts(alerts)
       => DedupedAlerts(alerts')
    ]_vars

\* A run committed on the alerts it had looked up, which already held an
\* open alert of the patient, and the table is still deduplicated.
C23_Witness ==
  /\ returned.assessment_id = 2
  /\ \A s \in SessionIds : sessions[s].pc = "idle"
  /\ \E a \in DOMAIN alerts :
       /\ alerts[a].status = "open"
       /\ alerts[a].stage3_assessment_id = 2
       /\ alerts[a].created_at = 1
  /\ DedupedAlerts(alerts)

\* The alert types the given run qualifies for.
QualifyingTypes(run) ==
  {AlertCandidates(UpsertThreshold(cfg), run)[i].alert_type :
     i \in DOMAIN AlertCandidates(UpsertThreshold(cfg), run)}

\* C24: a Stage 3 run keeps every existing alert's status and resolved_at,
\* leaves ack and closed alerts, other patients' alerts and all earlier
\* Stage3Assessments exactly as they were, and leaves the patient's alerts
\* of a type it does not qualify for untouched: an open one stays open with
\* its score, threshold and assessment reference.
C24_RunFrame ==
  [][IsRunStep =>
       LET k == Len(assessments')
           run == assessments'[k]
       IN /\ Len(alerts') >= Len(alerts)
          /\ \A a \in DOMAIN alerts :
               /\ alerts'[a].status = alerts[a].status
               /\ alerts'[a].resolved_at = alerts[a].resolved_at
               /\ ( \/ alerts[a].status \in {"ack", "closed"}
                    \/ alerts[a].patient_id # run.patient_id
                    \/ alerts[a].alert_type \notin QualifyingTypes(run) )
                  => alerts'[a] = alerts[a]
          /\ \A j \in DOMAIN assessments : assessments'[j] = assessments[j]
    ]_vars

\* The latest run did not qualify for the type of an open alert that an
\* earlier run of the same patient had raised, and the alert is still open
\* and still references the earlier assessment.
C24_Witness ==
  /\ returned.error = ""
  /\ returned.assessment_id = Len(assessments)
  /\ returned.assessment_id > 1
  /\ \E a \in DOMAIN alerts :
       /\ alerts[a].status = "open"
       /\ alerts[a].patient_id = assessments[returned.assessment_id].patient_id
       /\ alerts[a].stage3_assessment_id < returned.assessment_id
       /\ alerts[a].alert_type
            \notin QualifyingTypes(assessments[returned.assessment_id])

\* The run and the one before it are heuristic runs of the same patient on
\* the same clinical, fibrosis and stiffness rows.
SameInputs(before, after) ==
  /\ before.patient_id = after.patient_id
  /\ before.clinical_assessment_id = after.clinical_assessment_id
  /\ before.fibrosis_prediction_id = after.fibrosis_prediction_id
  /\ before.stiffness_measurement_id = after.stiffness_measurement_id
  /\ EndsWithHeuristic(before.model_version)
  /\ EndsWithHeuristic(after.model_version)

\* C25: in heuristic mode the history component of a run is the patient's
\* previous composite score (0 on the first run), and a run on the same
\* inputs as the run before it never scores lower than that run.
C25_CompositeNeverDecreases ==
  [][IsRunStep =>
       LET k == Len(assessments')
           run == assessments'[k]
           prev_id == ResolveSelectedOrLatest(assessments, run.patient_id, NoId)
       IN /\ run.feature_snapshot_json.previous_composite_score =
               IF prev_id = NoId THEN 0
               ELSE assessments[prev_id].composite_risk_score
          /\ prev_id # NoId /\ SameInputs(assessments[prev_id], run)
             => run.composite_risk_score >= assessments[prev_id].composite_risk_score
    ]_vars

\* The second run on the same inputs crossed the threshold and created the
\* alert that the first run had not.
C25_Witness ==
  /\ Len(assessments) = 2
  /\ SameInputs(assessments[1], assessments[2])
  /\ QualifyingTypes(assessments[1]) = {}
  /\ assessments[2].composite_risk_score > assessments[1].composite_risk_score
  /\ returned.assessment_id = 2
  /\ returned.created # << >>
  /\ \E a \in DOMAIN alerts : alerts[a].created_at = 2 /\ alerts[a].status = "open"

\* C26: the fusion-model load is decided once per process for the artifact
\* directory and its outcome is reused: once it is in the cache it never
\* changes, and a run served while "no model" is cached is heuristic even
\* when the artifact is on disk by then.  Likewise a FibrosisModelRuntime
\* that has fallen back stays fallen back and predicts heuristically.
C26_LoadedOnce ==
  [][ /\ model_cache # "unset" => model_cache' = model_cache
      /\ (IsRunStep /\ model_cache = "none")
           => /\ EndsWithHeuristic(assessments'[Len(assessments')].model_version)
              /\ ~returned'.artifact_scored
      /\ runtime._model = "false"
           => /\ runtime'._model = runtime._model
              /\ runtime'.calls = runtime.calls + 1
                   => /\ IsPrediction(runtime'.pred)
                      /\ runtime'.pred.inference_mode = "heuristic"
    ]_vars

\* A second Stage 3 run was heuristic although the artifact had been
\* deployed after the first, and the kept runtime predicted heuristically
\* for the second time although the model file is on disk by now.
C26_Witness ==
  /\ Len(assessments) = 2
  /\ artifact_on_disk
  /\ model_cache = "none"
  /\ EndsWithHeuristic(assessments[2].model_version)
  /\ runtime.calls >= 2
  /\ runtime._model = "false"
  /\ env.stage2_artifact = "ok"
  /\ IsPrediction(runtime.pred)

\* Ids a request can name that are not rows of the patient: rows of other
\* patients and an id no row has.
NotOwnIds(table, patient_id) ==
  (DOMAIN table \ RowsOf(table, patient_id)) \cup {Len(table) + 1}

\* The row a request's id stands for: the patient's own row, the patient's
\* latest row when no id is given, and nothing for any other id.
OwnRowOrNone(table, patient_id, selected_id) ==
  IF selected_id \in RowsOf(table, patient_id) THEN table[selected_id]
  ELSE IF selected_id = NoId /\ RowsOf(table, patient_id) # {}
  THEN table[CHOOSE i \in RowsOf(table, patient_id) :
               \A j \in RowsOf(table, patient_id) : j <= i]
  ELSE None

\* C27: every stored Stage3Assessment references only rows of its own
\* patient, and in every reachable state a run that names an id of another
\* patient's row, or of no row, treats that input as absent: no reference
\* to it, no fallback to the patient's latest row, a proxy instead of the
\* stiffness row, an error when neither stage input is left, and scores
\* computed without it.
C27_OwnRowsOnly ==
  /\ \A k \in DOMAIN assessments :
       LET a == assessments[k]
       IN /\ a.clinical_assessment_id \in RowsOf(clinical, a.patient_id) \cup {NoId}
          /\ a.fibrosis_prediction_id \in RowsOf(fibrosis, a.patient_id) \cup {NoId}
          /\ a.stiffness_measurement_id \in RowsOf(stiffness, a.patient_id)
  /\ \A p \in Patients, u \in Users :
     \A cid \in {NoId} \cup DOMAIN clinical \cup {Len(clinical) + 1},
        fid \in {NoId} \cup DOMAIN fibrosis \cup {Len(fibrosis) + 1},
        sid \in {NoId} \cup DOMAIN stiffness \cup {Len(stiffness) + 1} :
       LET r == RunStage3Assessment(cfg, p, u, cid, fid, sid, NotPredicted,
                                    CHOOSE pick \in ValidPicks(alerts, p) : TRUE)
           a == r.assessments[r.assessment_id]
           c_row == OwnRowOrNone(clinical, p, cid)
           f_row == OwnRowOrNone(fibrosis, p, fid)
           s_row == OwnRowOrNone(stiffness, p, sid)
           prev_id == ResolveSelectedOrLatest(assessments, p, NoId)
           expected ==
             ComputeStage3(cfg, c_row, f_row,
                           IF s_row = None THEN EstimateStiffnessProxy(c_row, f_row)
                           ELSE s_row.measured_kpa,
                           IF s_row = None THEN "PROXY" ELSE s_row.source,
                           IF prev_id = NoId THEN None ELSE assessments[prev_id],
                           None, << Stage3RegistryModelName, "v1" >>)
       IN /\ (cid \in NotOwnIds(clinical, p) /\ fid \in NotOwnIds(fibrosis, p))
               => r.error # ""
          /\ r.error = "" =>
               /\ cid \in NotOwnIds(clinical, p) => a.clinical_assessment_id = NoId
               /\ fid \in NotOwnIds(fibrosis, p) => a.fibrosis_prediction_id = NoId
               /\ sid \in NotOwnIds(stiffness, p) =>
                    /\ a.stiffness_measurement_id = Len(stiffness) + 1
                    /\ r.stiffness[Len(stiffness) + 1].source = "PROXY"
                    /\ r.stiffness[Len(stiffness) + 1].patient_id = p
               /\ a.composite_risk_score = expected.composite_risk_score
               /\ a.progression_risk_12m = expected.progression_risk_12m
               /\ a.decomp_risk_12m = expected.decomp_risk_12m
               /\ a.feature_snapshot_json = expected.feature_snapshot

\* A stored assessment has no clinical reference and a PROXY stiffness row
\* of its own although its patient has a clinical assessment and a measured
\* stiffness: the request named ids that are not the patient's, while the
\* other patient's rows are in the tables.
C27_Witness ==
  \E k \in DOMAIN assessments :
    /\ assessments[k].clinical_assessment_id = NoId
    /\ RowsOf(clinical, assessments[k].patient_id) # {}
    /\ assessments[k].fibrosis_prediction_id # NoId
    /\ stiffness[assessments[k].stiffness_measurement_id].source = "PROXY"
    /\ \E i \in RowsOf(stiffness, assessments[k].patient_id) :
         stiffness[i].source = "MEASURED"
    /\ \E i \in DOMAIN clinical : clinical[i].patient_id # assessments[k].patient_id

\* The features a list of an explanation names.
FeaturesOf(items) == {items[r].feature : r \in DOMAIN items}

\* C28: in every stored explanation the positive list has five entries, the
\* negative list three, no component is in both, and each of the eight
\* components is in exactly one of them.
C28_ContributionsPartition ==
  \A e \in DOMAIN explanations :
    LET contrib == explanations[e].local_feature_contrib_json
    IN /\ Len(contrib.positive) = 5
       /\ Len(contrib.negative) = 3
       /\ Cardinality(FeaturesOf(contrib.positive)) = 5
       /\ Cardinality(FeaturesOf(contrib.negative)) = 3
       /\ FeaturesOf(contrib.positive) \cap FeaturesOf(contrib.negative) = {}
       /\ FeaturesOf(contrib.positive) \cup FeaturesOf(contrib.negative)
            = {ComponentNames[i] : i \in DOMAIN ComponentNames}

\* C29: decomp_risk_12m stays below 0.8 in both modes (at most 0.7926 from
\* the heuristic, 0.77 from the model), no DECOMPENSATION_RISK alert has
\* severity critical, and under a precision target of 0.90 or more there is
\* no DECOMPENSATION_RISK alert at all.
C29_DecompBelowCritical ==
  /\ \A k \in DOMAIN assessments :
       /\ assessments[k].decomp_risk_12m < 800000
       /\ assessments[k].decomp_risk_12m <=
            IF EndsWithHeuristic(assessments[k].model_version)
            THEN 792600 ELSE 770000
  /\ \A a \in DOMAIN alerts :
       alerts[a].alert_type = "DECOMPENSATION_RISK" =>
         /\ alerts[a].severity # "critical"
         /\ cfg.stage3_alert_ppv_target < 90

\* Under a precision target of 0.90 or more a heuristic run reached the
\* highest decompensation risk there is, 0.7926; the composite raised its
\* alert and no DECOMPENSATION_RISK alert exists.
C29_Witness ==
  /\ cfg.stage3_alert_ppv_target >= 90
  /\ \E k \in DOMAIN assessments :
       /\ assessments[k].decomp_risk_12m = 792600
       /\ EndsWithHeuristic(assessments[k].model_version)
  /\ \E a \in DOMAIN alerts : alerts[a].alert_type = "ADVANCED_FIBROSIS_RISK"
  /\ \A a \in DOMAIN alerts : alerts[a].alert_type # "DECOMPENSATION_RISK"

\* The PROXY rows of a patient in a StiffnessMeasurement table.
ProxyRowsOf(table, patient_id) ==
  {i \in RowsOf(table, patient_id) : table[i].source = "PROXY"}

\* C30: a run that names no stiffness row and finds none for the patient
\* stores one PROXY row and references it; a run that finds rows references
\* the latest stored one, adds no row and takes its value as it is stored,
\* whatever Stage 1 or Stage 2 results arrived since; so the patient never
\* has a second PROXY row.
C30_ProxyPersistedAndReused ==
  [][IsRunStep =>
       LET k == Len(assessments')
           run == assessments'[k]
           p == run.patient_id
           latest == ResolveSelectedOrLatest(stiffness, p, NoId)
           new == Len(stiffness) + 1
       IN /\ latest = NoId =>
               /\ Len(stiffness') = new
               /\ stiffness'[new].source = "PROXY"
               /\ stiffness'[new].patient_id = p
               /\ run.stiffness_measurement_id = new
               /\ run.feature_snapshot_json.stiffness_kpa = stiffness'[new].measured_kpa
          /\ latest # NoId =>
               /\ stiffness' = stiffness
               /\ run.stiffness_measurement_id = latest
               /\ run.feature_snapshot_json.stiffness_kpa = stiffness[latest].measured_kpa
               /\ run.feature_snapshot_json.stiffness_source = stiffness[latest].source
          /\ Cardinality(ProxyRowsOf(stiffness', p)) <= 1
    ]_vars

\* The first run stored an estimate made without a Stage 1 result; the
\* Stage 1 result arrived, the second run used it and still took the stored
\* estimate, which differs from what an estimate would give now.
C30_Witness ==
  /\ Len(assessments) >= 2
  /\ Len(stiffness) = 1
  /\ stiffness[1].source = "PROXY"
  /\ assessments[1].clinical_assessment_id = NoId
  /\ assessments[2].clinical_assessment_id = 1
  /\ assessments[1].stiffness_measurement_id = 1
  /\ assessments[2].stiffness_measurement_id = 1
  /\ assessments[2].feature_snapshot_json.stiffness_kpa = stiffness[1].measured_kpa
  /\ stiffness[1].measured_kpa
       # EstimateStiffnessProxy(clinical[1], fibrosis[Len(fibrosis)])

====
